---- MODULE Spec2Model ----
(***************************************************************************)
(* Tool-orchestration layer of ollama-code: the tool-server supervisor     *)
(* (MCPServerManager, in its two TypeScript versions), the two-phase round *)
(* trip of OllamaWithMCPProvider, and the text extractor extractToolCalls. *)
(* Each component has its own next-state relation over the shared          *)
(* variables; the variables of the other components stay as Init left them.*)
(***************************************************************************)
EXTENDS Integers, Sequences, FiniteSets, TLC

VARIABLES
    impl,             \* which MCPServerManager class was constructed
    servers,          \* ollama-bridge.ts: Map<string, ChildProcess>, insertion order
    serverProcesses,  \* server.ts: Map<string, ChildProcess>, insertion order
    procs,            \* the child processes spawned so far, indexed by pid
    stopping,         \* server.ts stopServer: ids whose stop promise is pending
    stopTimers,       \* server.ts stopServer: ids whose 3 s timer is armed
    startCalls,       \* per id: startServer calls since the last stop or exit
    spawnCount,       \* per id: processes spawned since the last stop or exit
    stopAll,          \* the last stopAllServers call: where it stands
    exPc,             \* extractor: "idle", or "done" once a text was scanned
    exText,           \* the text given to extractToolCalls
    exReq,            \* the request the text was formatted from, if any
    exCalls,          \* what extractToolCalls returned for exText
    rtPc,             \* chatCompletionWithTools: where the call stands
    rtMessages,       \* its messages argument
    rtCompletion,     \* the adapted first completion
    rtNewMessages,    \* processToolCalls: newMessages
    rtStarted,        \* processToolCalls: tool calls the loop has reached
    rtInFlight,       \* tool calls invoked and not yet settled
    rtResult,         \* the completion the call resolved with
    rtError,          \* the error the call rejected with
    rtTrace,          \* log: model calls issued, tool calls begun and ended
    rtReplies,        \* log: the replies the model gave
    rtOutcomes,       \* log: how each tool call settled
    rtModelErr,       \* log: the error the model call threw
    regClients,       \* MCPMultiClient.clients: Map<string, MCPClient>
    toolServerMap,    \* MCPMultiClient.toolServerMap: tool name => server ids
    initialized,      \* MCPMultiClient.initialized
    regOp,            \* log: the registry operation that ran last
    regLog,           \* log: the requests it sent, in order
    regOut,           \* log: what it returned
    findCall,         \* the last findServerForTool call: arguments, requests, result
    cfgServers,       \* ServerConfigManager.config.servers
    cfgCall,          \* log: the last call on the configuration and its outcome
    bootImpl,         \* whose initializeMcpServers runs: "index" or "executor"
    mcpServerManager, \* the module's manager: created or not, the ids it tracks
    sdkMcpClients,    \* index.ts: the keys of the sdkMcpClients map, in order
    boot,             \* the last initializeMcpServers call: where it stands
    mcpCmd,           \* the last executeMcpCommand call: where it stands
    mcClients,        \* MCPMultiClient.clients while calls overlap
    mcToolServerMap,  \* its toolServerMap
    mcInitialized,    \* its initialized flag
    mcTasks,          \* the calls begun on it: where each stands
    mcAsked,          \* log: listTools calls made on each client
    chat,             \* index.ts startChat: the turn under way and its executeToolCalls
    chatSent,         \* log: what the turn sent to the servers, in order
    tdManager,        \* shutdownMcpServers: mcpServerManager is set
    tdClients,        \* the keys of sdkMcpClients at teardown, in order
    tdLive,           \* the servers the manager tracks
    teardown,         \* the shutdownMcpServers call: where it stands
    tdLog             \* log: shutdown requests sent and servers stopped, in order

supVars == <<impl, servers, serverProcesses, procs, stopping, stopTimers,
             startCalls, spawnCount, stopAll>>

exVars == <<exPc, exText, exReq, exCalls>>

rtVars == <<rtPc, rtMessages, rtCompletion, rtNewMessages, rtStarted,
            rtInFlight, rtResult, rtError, rtTrace, rtReplies, rtOutcomes,
            rtModelErr>>

regVars == <<regClients, toolServerMap, initialized, regOp, regLog, regOut>>

findVars == <<findCall>>

cfgVars == <<cfgServers, cfgCall>>

bootVars == <<bootImpl, mcpServerManager, sdkMcpClients, boot, mcpCmd>>

mcVars == <<mcClients, mcToolServerMap, mcInitialized, mcTasks, mcAsked>>

chatVars == <<chat, chatSent>>

tdVars == <<tdManager, tdClients, tdLive, teardown, tdLog>>

othersSup == <<exVars, rtVars, regVars, findVars, cfgVars, bootVars, mcVars, chatVars, tdVars>>

othersEx == <<supVars, rtVars, regVars, findVars, cfgVars, bootVars, mcVars, chatVars, tdVars>>

othersRt == <<supVars, exVars, regVars, findVars, cfgVars, bootVars, mcVars, chatVars, tdVars>>

othersReg == <<supVars, exVars, rtVars, findVars, cfgVars, bootVars, mcVars, chatVars, tdVars>>

othersFind == <<supVars, exVars, rtVars, regVars, cfgVars, bootVars, mcVars, chatVars, tdVars>>

othersCfg == <<supVars, exVars, rtVars, regVars, findVars, bootVars, mcVars, chatVars, tdVars>>

othersBoot == <<supVars, exVars, rtVars, regVars, findVars, cfgVars, mcVars, chatVars, tdVars>>

othersMc == <<supVars, exVars, rtVars, regVars, findVars, cfgVars, bootVars, chatVars, tdVars>>

othersChat == <<supVars, exVars, rtVars, regVars, findVars, cfgVars, bootVars, mcVars, tdVars>>

othersTd == <<supVars, exVars, rtVars, regVars, findVars, cfgVars, bootVars, mcVars, chatVars>>

vars == <<supVars, exVars, rtVars, regVars, findVars, cfgVars, bootVars, mcVars, chatVars, tdVars>>

----------------------------------------------------------------------------
(* Bounds *)

MaxProcs == 2     \* child processes spawned in one run
MaxCalls == 2     \* consecutive startServer calls counted per id

----------------------------------------------------------------------------
(* Configuration: the ServerConfig records the supervisor is started with. *)

ServerIds == {"s1", "s2"}

\* config.command of each configured server; "" is a record without command
ConfigCommand(id) == IF id = "s2" THEN "npx" ELSE "node"

\* exit code reported by 'close' when the child was ended by a signal (null)
NullCode == -1

CloseCodes == {0, 1, NullCode}

----------------------------------------------------------------------------
(* JavaScript Map, kept as the sequence of its <<key, value>> entries in    *)
(* insertion order.                                                        *)

MapHas(m, k) == \E i \in 1..Len(m) : m[i][1] = k

MapGet(m, k) == LET i == CHOOSE j \in 1..Len(m) : m[j][1] = k IN m[i][2]

MapKeys(m) == [i \in 1..Len(m) |-> m[i][1]]

\* a faulty set: always appends, leaving an earlier entry of the key in place
MapSetDup(m, k, v) == Append(m, <<k, v>>)

\* Map.prototype.set: replaces the value of an existing key in place
MapSet(m, k, v) ==
    IF MapHas(m, k)
    THEN [i \in 1..Len(m) |-> IF m[i][1] = k THEN <<k, v>> ELSE m[i]]
    ELSE Append(m, <<k, v>>)

\* a delete that empties the map
MapDeleteAll(m, k) == <<>>

\* Map.prototype.delete: removes the entry of one key
MapDelete(m, k) == SelectSeq(m, LAMBDA e : e[1] # k)

\* number of handles the map tracks for one id
Handles(m, k) == Cardinality({i \in 1..Len(m) : m[i][1] = k})

----------------------------------------------------------------------------
(* Child processes *)

Pids == 1..Len(procs)

\* child_process.spawn: a new process, its start promise pending
Spawn(id) == Append(procs, [id |-> id, alive |-> TRUE, sigterm |-> FALSE,
                            sigkill |-> FALSE, output |-> FALSE,
                            startP |-> "pending"])

\* the 'close' and 'error' handlers delete the entry of the id
OnExitKeep(m, id) == m

OnExit(m, id) == MapDelete(m, id)

NoStopAll == [pc |-> "idle", ids |-> <<>>, tracked |-> {}, waiting |-> "",
              started |-> FALSE]

\* a start that runs while stopAllServers is under way
NoteStart(sa) == IF sa.pc = "run" THEN [sa EXCEPT !.started = TRUE] ELSE sa

Bump(f, id) == [f EXCEPT ![id] = IF @ < MaxCalls THEN @ + 1 ELSE @]

Reset(f, id) == [f EXCEPT ![id] = 0]

----------------------------------------------------------------------------
(* Supervisor, ollama-bridge.ts version *)

NewBridgeManager ==
    /\ impl = "none"
    /\ impl' = "bridge"
    /\ UNCHANGED <<servers, serverProcesses, procs, stopping, stopTimers,
                   startCalls, spawnCount>>
    /\ UNCHANGED stopAll
    /\ UNCHANGED othersSup

\* startServer returns at once when the id is tracked
BrStartServerTracked(id) ==
    /\ impl = "bridge"
    /\ startCalls[id] < MaxCalls
    /\ MapHas(servers, id)
    /\ startCalls' = Bump(startCalls, id)
    /\ UNCHANGED <<impl, servers, serverProcesses, procs, stopping, stopTimers,
                   spawnCount>>
    /\ UNCHANGED stopAll
    /\ UNCHANGED othersSup

\* startServer spawns the child, tracks it and registers its handlers
BrStartServerSpawn(id) ==
    /\ impl = "bridge"
    /\ startCalls[id] < MaxCalls
    /\ ~MapHas(servers, id)
    /\ ConfigCommand(id) # ""
    /\ Len(procs) < MaxProcs
    /\ procs' = Spawn(id)
    /\ servers' = MapSet(servers, id, Len(procs) + 1)
    /\ startCalls' = Bump(startCalls, id)
    /\ spawnCount' = Bump(spawnCount, id)
    /\ UNCHANGED <<impl, serverProcesses, stopping, stopTimers>>
    /\ stopAll' = NoteStart(stopAll)
    /\ UNCHANGED othersSup

\* first stdout data of the child: clearTimeout, resolve
BrProcOutput(p) ==
    /\ impl = "bridge"
    /\ p \in Pids
    /\ procs[p].alive
    /\ procs' = [procs EXCEPT ![p].output = TRUE,
                              ![p].startP = IF @ = "pending" THEN "resolved" ELSE @]
    /\ UNCHANGED <<impl, servers, serverProcesses, stopping, stopTimers,
                   startCalls, spawnCount>>
    /\ UNCHANGED stopAll
    /\ UNCHANGED othersSup

\* 'error' of a child that could not be spawned: both handlers run
BrProcError(p) ==
    /\ impl = "bridge"
    /\ p \in Pids
    /\ procs[p].alive
    /\ ~procs[p].output
    /\ ~procs[p].sigterm
    /\ procs' = [procs EXCEPT ![p].alive = FALSE,
                              ![p].startP = IF @ = "pending" THEN "rejected" ELSE @]
    /\ servers' = OnExit(servers, procs[p].id)
    /\ startCalls' = Reset(startCalls, procs[p].id)
    /\ spawnCount' = Reset(spawnCount, procs[p].id)
    /\ UNCHANGED <<impl, serverProcesses, stopping, stopTimers>>
    /\ UNCHANGED stopAll
    /\ UNCHANGED othersSup

\* 'close' of a child: the cleanup handler deletes the entry of the id, the
\* start promise is rejected on a non-zero code
BrProcClose(p, code) ==
    /\ impl = "bridge"
    /\ p \in Pids
    /\ procs[p].alive
    /\ (code = NullCode) => procs[p].sigterm
    /\ procs' = [procs EXCEPT ![p].alive = FALSE,
                              ![p].startP = IF @ = "pending" /\ code # 0
                                            THEN "rejected" ELSE @]
    /\ servers' = OnExit(servers, procs[p].id)
    /\ startCalls' = Reset(startCalls, procs[p].id)
    /\ spawnCount' = Reset(spawnCount, procs[p].id)
    /\ UNCHANGED <<impl, serverProcesses, stopping, stopTimers>>
    /\ UNCHANGED stopAll
    /\ UNCHANGED othersSup

\* the 5 s timer of the start promise fires: resolve
BrStartTimeout(p) ==
    /\ impl = "bridge"
    /\ p \in Pids
    /\ procs[p].startP = "pending"
    /\ procs' = [procs EXCEPT ![p].startP = "resolved"]
    /\ UNCHANGED <<impl, servers, serverProcesses, stopping, stopTimers,
                   startCalls, spawnCount>>
    /\ UNCHANGED stopAll
    /\ UNCHANGED othersSup

\* one stopServer body: SIGTERM to the tracked child, entry deleted
BrStopOne(st, id) ==
    IF MapHas(st.servers, id)
    THEN [servers |-> MapDelete(st.servers, id),
          procs   |-> [st.procs EXCEPT ![MapGet(st.servers, id)].sigterm = TRUE]]
    ELSE st

BrStopServer(id) ==
    /\ impl = "bridge"
    /\ LET st == BrStopOne([servers |-> servers, procs |-> procs], id) IN
        /\ servers' = st.servers
        /\ procs' = st.procs
    /\ startCalls' = Reset(startCalls, id)
    /\ spawnCount' = Reset(spawnCount, id)
    /\ UNCHANGED <<impl, serverProcesses, stopping, stopTimers>>
    /\ UNCHANGED stopAll
    /\ UNCHANGED othersSup

RECURSIVE BrStopEach(_, _)
BrStopEach(st, keys) ==
    IF keys = <<>> THEN st
    ELSE BrStopEach(BrStopOne(st, Head(keys)), Tail(keys))

\* stopAllServers: stopServer has no await, so every body runs inside the loop
BrStopAllServers ==
    /\ impl = "bridge"
    /\ servers # <<>>
    /\ LET st == BrStopEach([servers |-> servers, procs |-> procs], MapKeys(servers)) IN
        /\ servers' = st.servers
        /\ procs' = st.procs
    /\ startCalls' = [id \in ServerIds |->
                        IF MapHas(servers, id) THEN 0 ELSE startCalls[id]]
    /\ spawnCount' = [id \in ServerIds |->
                        IF MapHas(servers, id) THEN 0 ELSE spawnCount[id]]
    /\ UNCHANGED <<impl, serverProcesses, stopping, stopTimers>>
    /\ stopAll' = [NoStopAll EXCEPT !.pc = "returned",
                                    !.tracked = {id \in ServerIds : MapHas(servers, id)}]
    /\ UNCHANGED othersSup

----------------------------------------------------------------------------
(* Supervisor, server.ts version *)

NewTsManager ==
    /\ impl = "none"
    /\ impl' = "ts"
    /\ UNCHANGED <<servers, serverProcesses, procs, stopping, stopTimers,
                   startCalls, spawnCount>>
    /\ UNCHANGED stopAll
    /\ UNCHANGED othersSup

\* startServer spawns without looking at serverProcesses and stores the child
TsStartServer(id) ==
    /\ impl = "ts"
    /\ startCalls[id] < MaxCalls
    /\ Len(procs) < MaxProcs
    /\ procs' = Spawn(id)
    /\ serverProcesses' = MapSet(serverProcesses, id, Len(procs) + 1)
    /\ startCalls' = Bump(startCalls, id)
    /\ spawnCount' = Bump(spawnCount, id)
    /\ UNCHANGED <<impl, servers, stopping, stopTimers>>
    /\ stopAll' = NoteStart(stopAll)
    /\ UNCHANGED othersSup

TsProcOutput(p) ==
    /\ impl = "ts"
    /\ p \in Pids
    /\ procs[p].alive
    /\ ~procs[p].output
    /\ procs' = [procs EXCEPT ![p].output = TRUE]
    /\ UNCHANGED <<impl, servers, serverProcesses, stopping, stopTimers,
                   startCalls, spawnCount>>
    /\ UNCHANGED stopAll
    /\ UNCHANGED othersSup

TsProcError(p) ==
    /\ impl = "ts"
    /\ p \in Pids
    /\ procs[p].alive
    /\ ~procs[p].output
    /\ ~procs[p].sigterm
    /\ procs' = [procs EXCEPT ![p].alive = FALSE,
                              ![p].startP = IF @ = "pending" THEN "rejected" ELSE @]
    /\ serverProcesses' = OnExit(serverProcesses, procs[p].id)
    /\ startCalls' = Reset(startCalls, procs[p].id)
    /\ spawnCount' = Reset(spawnCount, procs[p].id)
    /\ UNCHANGED <<impl, servers, stopping, stopTimers>>
    /\ UNCHANGED stopAll
    /\ UNCHANGED othersSup

TsProcClose(p) ==
    /\ impl = "ts"
    /\ p \in Pids
    /\ procs[p].alive
    /\ procs' = [procs EXCEPT ![p].alive = FALSE]
    /\ serverProcesses' = OnExit(serverProcesses, procs[p].id)
    /\ startCalls' = Reset(startCalls, procs[p].id)
    /\ spawnCount' = Reset(spawnCount, procs[p].id)
    /\ UNCHANGED <<impl, servers, stopping, stopTimers>>
    /\ UNCHANGED stopAll
    /\ UNCHANGED othersSup

\* setTimeout(() => resolve(mcpServer), 2000)
TsStartTimer(p) ==
    /\ impl = "ts"
    /\ p \in Pids
    /\ procs[p].startP = "pending"
    /\ procs' = [procs EXCEPT ![p].startP = "resolved"]
    /\ UNCHANGED <<impl, servers, serverProcesses, stopping, stopTimers,
                   startCalls, spawnCount>>
    /\ UNCHANGED stopAll
    /\ UNCHANGED othersSup

\* stopServer on an untracked id does nothing
TsStopServerAbsent(id) ==
    /\ impl = "ts"
    /\ ~MapHas(serverProcesses, id)
    /\ startCalls' = Reset(startCalls, id)
    /\ spawnCount' = Reset(spawnCount, id)
    /\ UNCHANGED <<impl, servers, serverProcesses, procs, stopping, stopTimers>>
    /\ UNCHANGED stopAll
    /\ UNCHANGED othersSup

\* stopServer: SIGTERM, then the poll interval and the 3 s timer are armed
TsStopServer(id) ==
    /\ impl = "ts"
    /\ MapHas(serverProcesses, id)
    /\ id \notin stopTimers
    /\ procs' = [procs EXCEPT ![MapGet(serverProcesses, id)].sigterm = TRUE]
    /\ stopping' = stopping \cup {id}
    /\ stopTimers' = stopTimers \cup {id}
    /\ startCalls' = Reset(startCalls, id)
    /\ spawnCount' = Reset(spawnCount, id)
    /\ UNCHANGED <<impl, servers, serverProcesses>>
    /\ UNCHANGED stopAll
    /\ UNCHANGED othersSup

\* the 100 ms poll sees the entry gone: the stop promise resolves
TsStopPoll(id) ==
    /\ impl = "ts"
    /\ id \in stopping
    /\ ~MapHas(serverProcesses, id)
    /\ stopping' = stopping \ {id}
    /\ UNCHANGED <<impl, servers, serverProcesses, procs, stopTimers,
                   startCalls, spawnCount>>
    /\ UNCHANGED stopAll
    /\ UNCHANGED othersSup

\* the 3 s timer (never cleared) fires: a still tracked entry is deleted
TsStopTimeout(id) ==
    /\ impl = "ts"
    /\ id \in stopTimers
    /\ serverProcesses' = MapDelete(serverProcesses, id)
    /\ stopping' = stopping \ {id}
    /\ stopTimers' = stopTimers \ {id}
    /\ startCalls' = IF MapHas(serverProcesses, id) THEN Reset(startCalls, id)
                     ELSE startCalls
    /\ spawnCount' = IF MapHas(serverProcesses, id) THEN Reset(spawnCount, id)
                     ELSE spawnCount
    /\ UNCHANGED <<impl, servers, procs>>
    /\ UNCHANGED stopAll
    /\ UNCHANGED othersSup

\* the ids from the first one that is still tracked on: stopServer returns
\* at once for the others
RECURSIVE SkipStopped(_, _)
SkipStopped(ids, m) ==
    IF ids = <<>> \/ MapHas(m, Head(ids)) THEN ids
    ELSE SkipStopped(Tail(ids), m)

\* has the promise of stopServer(id) resolved
SettledAlways(id, pending) == TRUE

Settled(id, pending) == id \notin pending

\* the loop of stopAllServers up to its next pending await: SIGTERM to the
\* next tracked server, its poll and timer armed; or the return
TsStopAllFrom(ids, sa) ==
    LET rest == SkipStopped(ids, serverProcesses) IN
    IF rest = <<>>
    THEN /\ stopAll' = [sa EXCEPT !.pc = "returned", !.ids = <<>>, !.waiting = ""]
         /\ UNCHANGED <<procs, stopping, stopTimers, startCalls, spawnCount>>
    ELSE /\ Head(rest) \notin stopTimers
         /\ procs' = [procs EXCEPT ![MapGet(serverProcesses, Head(rest))].sigterm = TRUE]
         /\ stopping' = stopping \cup {Head(rest)}
         /\ stopTimers' = stopTimers \cup {Head(rest)}
         /\ startCalls' = Reset(startCalls, Head(rest))
         /\ spawnCount' = Reset(spawnCount, Head(rest))
         /\ stopAll' = [sa EXCEPT !.pc = "run", !.ids = Tail(rest),
                                  !.waiting = Head(rest)]

\* stopAllServers: the snapshot of the tracked ids, then the loop
TsStopAllServers ==
    /\ impl = "ts"
    /\ stopAll.pc # "run"
    /\ TsStopAllFrom(MapKeys(serverProcesses),
                     [NoStopAll EXCEPT
                          !.tracked = {id \in ServerIds : MapHas(serverProcesses, id)}])
    /\ UNCHANGED <<impl, servers, serverProcesses>>
    /\ UNCHANGED othersSup

\* await this.stopServer(serverId) resumes: the loop goes on
TsStopAllResume ==
    /\ impl = "ts"
    /\ stopAll.pc = "run"
    /\ Settled(stopAll.waiting, stopping)
    /\ TsStopAllFrom(stopAll.ids, stopAll)
    /\ UNCHANGED <<impl, servers, serverProcesses>>
    /\ UNCHANGED othersSup

----------------------------------------------------------------------------

InitSup ==
    /\ impl = "none"
    /\ servers = <<>>
    /\ serverProcesses = <<>>
    /\ procs = <<>>
    /\ stopping = {}
    /\ stopTimers = {}
    /\ startCalls = [id \in ServerIds |-> 0]
    /\ spawnCount = [id \in ServerIds |-> 0]
    /\ stopAll = NoStopAll

NextSup ==
    \/ NewBridgeManager
    \/ NewTsManager
    \/ \E id \in ServerIds :
        \/ BrStartServerTracked(id)
        \/ BrStartServerSpawn(id)
        \/ BrStopServer(id)
        \/ TsStartServer(id)
        \/ TsStopServerAbsent(id)
        \/ TsStopServer(id)
        \/ TsStopPoll(id)
        \/ TsStopTimeout(id)
    \/ BrStopAllServers
    \/ TsStopAllServers
    \/ TsStopAllResume
    \/ \E p \in Pids :
        \/ BrProcOutput(p)
        \/ BrProcError(p)
        \/ \E code \in CloseCodes : BrProcClose(p, code)
        \/ BrStartTimeout(p)
        \/ TsProcOutput(p)
        \/ TsProcError(p)
        \/ TsProcClose(p)
        \/ TsStartTimer(p)

----------------------------------------------------------------------------
(* Text.  A string is the sequence of its characters.  Every text of the    *)
(* model is written over Chars; the character classes of the regular        *)
(* expressions and the grammar of JSON.parse are given for that alphabet,   *)
(* over which no JSON array, literal, escape, sign, fraction or exponent    *)
(* can be written.                                                          *)

NL == "\n"

WordChars == {"a", "b", "c", "d", "f", "k", "l", "o", "p", "q", "s", "t", "x",
              "_", "0", "1"}

Chars == WordChars \cup {"/", " ", NL, "{", "}", "\"", ":", ",", "."}

\* \w
IsWord(c) == c \in WordChars

\* \s
IsSpace(c) == c \in {" ", NL}

\* .  (any character but a line terminator)
IsDot(c) == c # NL

Digits == {"0", "1"}

DigitVal(c) == IF c = "1" THEN 1 ELSE 0

\* first index >= i whose character fails the class test, Len(cs) + 1 if none
RECURSIVE RunEnd(_, _, _)
RunEnd(cs, i, kind) ==
    IF i > Len(cs) THEN i
    ELSE IF (kind = "w" /\ IsWord(cs[i])) \/ (kind = "s" /\ IsSpace(cs[i]))
            \/ (kind = "d" /\ cs[i] \in Digits)
         THEN RunEnd(cs, i + 1, kind)
         ELSE i

\* does cs hold the characters of lit from index i on
HasAt(cs, i, lit) ==
    /\ i >= 1
    /\ i + Len(lit) - 1 <= Len(cs)
    /\ SubSeq(cs, i, i + Len(lit) - 1) = lit

----------------------------------------------------------------------------
(* JSON values and JSON.parse.  A value is a record of one shape:          *)
(* t is "obj", "arr", "str", "num" or "null"; an object holds its members  *)
(* as a set of <<key, value>> pairs with one pair per key, an array holds   *)
(* its elements the same way under the keys "0", "1", ...                  *)

JStr(chars) == [t |-> "str", s |-> chars, n |-> 0, o |-> {}]

JNum(k) == [t |-> "num", s |-> <<>>, n |-> k, o |-> {}]

JObj(members) == [t |-> "obj", s |-> <<>>, n |-> 0, o |-> members]

JArr(elements) == [t |-> "arr", s |-> <<>>, n |-> 0, o |-> elements]

JNull == [t |-> "null", s |-> <<>>, n |-> 0, o |-> {}]

RECURSIVE DecimalText(_)
DecimalText(k) ==
    IF k < 10 THEN <<IF k = 1 THEN "1" ELSE "0">>
    ELSE DecimalText(k \div 10) \o DecimalText(k % 10)

ParseFail == [ok |-> FALSE, v |-> JNum(0), i |-> 0]

ParseOk(v, i) == [ok |-> TRUE, v |-> v, i |-> i]

\* a string token starting at the quote cs[i]: up to the next quote, no
\* control character inside
RECURSIVE StringEnd(_, _)
StringEnd(cs, i) ==
    IF i > Len(cs) \/ cs[i] = NL THEN 0
    ELSE IF cs[i] = "\"" THEN i
    ELSE StringEnd(cs, i + 1)

ParseString(cs, i) ==
    IF i > Len(cs) \/ cs[i] # "\"" THEN ParseFail
    ELSE LET j == StringEnd(cs, i + 1) IN
         IF j = 0 THEN ParseFail
         ELSE ParseOk(JStr(SubSeq(cs, i + 1, j - 1)), j + 1)

RECURSIVE DecimalVal(_)
DecimalVal(ds) ==
    IF ds = <<>> THEN 0
    ELSE 10 * DecimalVal(SubSeq(ds, 1, Len(ds) - 1)) + DigitVal(ds[Len(ds)])

\* a number token: "0" alone, or a run of digits that starts with no zero
ParseNumber(cs, i) ==
    IF i > Len(cs) \/ cs[i] \notin Digits THEN ParseFail
    ELSE IF cs[i] = "0" THEN ParseOk(JNum(0), i + 1)
    ELSE LET j == RunEnd(cs, i, "d") IN
         ParseOk(JNum(DecimalVal(SubSeq(cs, i, j - 1))), j)

\* a later member replaces an earlier one of the same key
PutMember(members, k, v) == {m \in members : m[1] # k} \cup {<<k, v>>}

RECURSIVE ParseValue(_, _)
RECURSIVE ParseMembers(_, _, _)
RECURSIVE ParseElements(_, _, _)

\* members from the key at index i on, up to and including the closing brace
ParseMembers(cs, i, acc) ==
    LET key == ParseString(cs, i) IN
    IF ~key.ok THEN ParseFail
    ELSE LET c == RunEnd(cs, key.i, "s") IN
         IF c > Len(cs) \/ cs[c] # ":" THEN ParseFail
         ELSE LET val == ParseValue(cs, c + 1) IN
              IF ~val.ok THEN ParseFail
              ELSE LET e    == RunEnd(cs, val.i, "s")
                       acc2 == PutMember(acc, key.v.s, val.v)
                   IN IF e > Len(cs) THEN ParseFail
                      ELSE IF cs[e] = "}" THEN ParseOk(JObj(acc2), e + 1)
                      ELSE IF cs[e] = ","
                           THEN ParseMembers(cs, RunEnd(cs, e + 1, "s"), acc2)
                      ELSE ParseFail

ParseValue(cs, i) ==
    LET b == RunEnd(cs, i, "s") IN
    IF b > Len(cs) THEN ParseFail
    ELSE IF cs[b] = "\"" THEN ParseString(cs, b)
    ELSE IF cs[b] \in Digits THEN ParseNumber(cs, b)
    ELSE IF cs[b] = "{"
         THEN LET m == RunEnd(cs, b + 1, "s") IN
              IF m > Len(cs) THEN ParseFail
              ELSE IF cs[m] = "}" THEN ParseOk(JObj({}), m + 1)
              ELSE ParseMembers(cs, m, {})
    ELSE IF cs[b] = "["
         THEN LET m == RunEnd(cs, b + 1, "s") IN
              IF m > Len(cs) THEN ParseFail
              ELSE IF cs[m] = "]" THEN ParseOk(JArr({}), m + 1)
              ELSE ParseElements(cs, m, {})
    ELSE IF HasAt(cs, b, <<"n", "u", "l", "l">>) THEN ParseOk(JNull, b + 4)
    ELSE ParseFail

\* elements from the value at index i on, up to and including the closing
\* bracket
ParseElements(cs, i, acc) ==
    LET val == ParseValue(cs, i) IN
    IF ~val.ok THEN ParseFail
    ELSE LET e    == RunEnd(cs, val.i, "s")
             acc2 == acc \cup {<<DecimalText(Cardinality(acc)), val.v>>}
         IN IF e > Len(cs) THEN ParseFail
            ELSE IF cs[e] = "]" THEN ParseOk(JArr(acc2), e + 1)
            ELSE IF cs[e] = ","
                 THEN ParseElements(cs, RunEnd(cs, e + 1, "s"), acc2)
            ELSE ParseFail

\* JSON.parse: one value, then nothing but white space; ok = FALSE is the
\* SyntaxError
JsonParse(cs) ==
    LET r == ParseValue(cs, 1) IN
    IF r.ok /\ RunEnd(cs, r.i, "s") = Len(cs) + 1 THEN r ELSE ParseFail

----------------------------------------------------------------------------
(* extractToolCalls (utils/extract.ts).  Positions are 1-based: a regular   *)
(* expression's lastIndex k is the position k + 1.                          *)

\* the literal tools\/call of both patterns
KeywordOk == <<"o", "k">>

Keyword == <<"t", "o", "o", "l", "s", "/", "c", "a", "l", "l">>

\* {.*?} from the brace at index b: the index of the first closing brace,
\* 0 when a line terminator or the end of the text comes first
RECURSIVE BraceEnd(_, _)
BraceEnd(cs, i) ==
    IF i > Len(cs) \/ ~IsDot(cs[i]) THEN 0
    ELSE IF cs[i] = "}" THEN i
    ELSE BraceEnd(cs, i + 1)

NoMatch == [found |-> FALSE, start |-> 0, end |-> 0,
            server |-> <<>>, tool |-> <<>>, argsStr |-> <<>>]

\* the braces at index b close a match that began at index p
MatchBraces(cs, p, b, server, tool) ==
    IF b > Len(cs) \/ cs[b] # "{" THEN NoMatch
    ELSE LET e == BraceEnd(cs, b + 1) IN
         IF e = 0 THEN NoMatch
         ELSE [found |-> TRUE, start |-> p, end |-> e + 1, server |-> server,
               tool |-> tool, argsStr |-> SubSeq(cs, b, e)]

\* regex1 = /tools\/call\s+(\w+)\s+(\w+)\s+({.*?})/ tried at index p.  Each
\* greedy run is followed by a character of another class, so only the
\* maximal runs can match.
MatchAt1(cs, p) ==
    IF ~HasAt(cs, p, Keyword) THEN NoMatch
    ELSE LET a  == p + Len(Keyword)
             w1 == RunEnd(cs, a, "s")
             s1 == RunEnd(cs, w1, "w")
             w2 == RunEnd(cs, s1, "s")
             s2 == RunEnd(cs, w2, "w")
             b  == RunEnd(cs, s2, "s")
         IN IF w1 = a \/ s1 = w1 \/ w2 = s1 \/ s2 = w2 \/ b = s2 THEN NoMatch
            ELSE MatchBraces(cs, p, b, SubSeq(cs, w1, s1 - 1),
                             SubSeq(cs, w2, s2 - 1))

\* regex2 = /tools\/call\s+(\w+)\s+({.*?})/ tried at index p
MatchAt2(cs, p) ==
    IF ~HasAt(cs, p, Keyword) THEN NoMatch
    ELSE LET a  == p + Len(Keyword)
             w1 == RunEnd(cs, a, "s")
             s1 == RunEnd(cs, w1, "w")
             b  == RunEnd(cs, s1, "s")
         IN IF w1 = a \/ s1 = w1 \/ b = s1 THEN NoMatch
            ELSE MatchBraces(cs, p, b, <<>>, SubSeq(cs, w1, s1 - 1))

\* RegExp.prototype.exec of a global pattern: the leftmost match that starts
\* at index from or later
RECURSIVE Exec1(_, _)
Exec1(cs, from) ==
    IF from > Len(cs) THEN NoMatch
    ELSE LET m == MatchAt1(cs, from) IN
         IF m.found THEN m ELSE Exec1(cs, from + 1)

RECURSIVE Exec2(_, _)
Exec2(cs, from) ==
    IF from > Len(cs) THEN NoMatch
    ELSE LET m == MatchAt2(cs, from) IN
         IF m.found THEN m ELSE Exec2(cs, from + 1)

\* `${server}.${tool}`
FullToolName(server, tool) == server \o <<".">> \o tool

\* the first loop: every regex1 match in turn; a literal JSON.parse rejects
\* is skipped.  The field at is not in the code: it remembers where in the
\* text the request was found.
RECURSIVE Loop1(_, _, _)
Loop1(cs, from, calls) ==
    LET m == Exec1(cs, from) IN
    IF ~m.found THEN calls
    ELSE LET args == JsonParse(m.argsStr) IN
         Loop1(cs, m.end,
               IF args.ok
               THEN Append(calls, [tool |-> FullToolName(m.server, m.tool),
                                   args |-> args.v, at |-> m.start])
               ELSE calls)

\* regex1.test(fullMatch): regex1 is global, so the search starts at its
\* lastIndex, which a hit moves to the end of the hit and a miss resets
Test1(fullMatch, lastIndex) == Exec1(fullMatch, lastIndex)

\* the second loop: every regex2 match in turn, skipped when regex1 finds
\* something in the matched text
RECURSIVE Loop2(_, _, _, _)
Loop2(cs, from, lastIndex, calls) ==
    LET m == Exec2(cs, from) IN
    IF ~m.found THEN calls
    ELSE LET fullMatch == SubSeq(cs, m.start, m.end - 1)
             t         == Test1(fullMatch, lastIndex)
             args      == JsonParse(m.argsStr)
         IN IF t.found THEN Loop2(cs, m.end, t.end, calls)
            ELSE Loop2(cs, m.end, 1,
                       IF args.ok
                       THEN Append(calls, [tool |-> m.tool, args |-> args.v,
                                           at |-> m.start])
                       ELSE calls)

extractToolCalls(content) == Loop2(content, 1, 1, Loop1(content, 1, <<>>))

----------------------------------------------------------------------------
(* Requests and their directives.  A request's arguments are written as the *)
(* ordered members JSON.stringify walks; ToValue forgets the order, which   *)
(* deep equality ignores.                                                   *)

OStr(chars) == [t |-> "str", s |-> chars, n |-> 0, m |-> <<>>]

ONum(k) == [t |-> "num", s |-> <<>>, n |-> k, m |-> <<>>]

OObj(members) == [t |-> "obj", s |-> <<>>, n |-> 0, m |-> members]

RECURSIVE ToValue(_)
ToValue(ov) ==
    IF ov.t = "obj"
    THEN JObj({<<ov.m[i][1], ToValue(ov.m[i][2])>> : i \in 1..Len(ov.m)})
    ELSE [t |-> ov.t, s |-> ov.s, n |-> ov.n, o |-> {}]

\* JSON.stringify of a value whose strings and keys hold no quote
RECURSIVE JsonStringify(_)
RECURSIVE StringifyMembers(_, _)
StringifyMembers(m, i) ==
    IF i > Len(m) THEN <<>>
    ELSE (IF i > 1 THEN <<",">> ELSE <<>>)
         \o <<"\"">> \o m[i][1] \o <<"\"", ":">> \o JsonStringify(m[i][2])
         \o StringifyMembers(m, i + 1)

JsonStringify(ov) ==
    IF ov.t = "str" THEN <<"\"">> \o ov.s \o <<"\"">>
    ELSE IF ov.t = "num" THEN DecimalText(ov.n)
    ELSE <<"{">> \o StringifyMembers(ov.m, 1) \o <<"}">>

\* index of the first "." of a name, 0 if it has none
RECURSIVE DotIndex(_, _)
DotIndex(name, i) ==
    IF i > Len(name) THEN 0
    ELSE IF name[i] = "." THEN i
    ELSE DotIndex(name, i + 1)

\* the directive of a request: tools/call <server> <tool> <json> for a
\* name server.tool, tools/call <tool> <json> for a bare name
FormatDirective(req) ==
    LET d == DotIndex(req.tool, 1) IN
    Keyword \o <<" ">>
    \o (IF d = 0 THEN req.tool
        ELSE SubSeq(req.tool, 1, d - 1) \o <<" ">>
             \o SubSeq(req.tool, d + 1, Len(req.tool)))
    \o <<" ">> \o JsonStringify(req.args)

ToolNames == {<<"l", "s">>, <<"f", "s", ".", "l", "s">>}

ArgsEmpty == OObj(<<>>)

ArgsPath == OObj(<< <<<<"p">>, OStr(<<"/">>)>> >>)

ArgsTwo == OObj(<< <<<<"p">>, ONum(10)>>, <<<<"q">>, OStr(<<"a", " ", "b">>)>> >>)

ArgsNested == OObj(<< <<<<"p">>, OObj(<< <<<<"q">>, ONum(1)>> >>)>> >>)

ArgsBrace == OObj(<< <<<<"p">>, OStr(<<"}">>)>> >>)

ArgMappings == {ArgsEmpty, ArgsPath, ArgsTwo, ArgsNested, ArgsBrace}

Requests == [tool : ToolNames, args : ArgMappings]

NoRequest == [tool |-> <<>>, args |-> ArgsEmpty]

----------------------------------------------------------------------------
(* Texts: up to MaxFrags fragments, one after the other *)

MaxFrags == 2

Frag(k) ==
    CASE k = 1 -> FormatDirective([tool |-> <<"f", "s", ".", "l", "s">>, args |-> ArgsPath])
      [] k = 2 -> FormatDirective([tool |-> <<"l", "s">>, args |-> ArgsPath])
      [] k = 3 -> Keyword \o <<" ", "c", "a", "t", " ", "{", "b", "a", "d", "}">>
      [] k = 4 -> Keyword \o <<" ", "f", "s", " ", "c", "a", "t", " ",
                              "{", "\"", "p", "\"", ":", "}">>
      [] k = 5 -> FormatDirective([tool |-> <<"f", "s", ".", "l", "s">>, args |-> ArgsNested])
      [] k = 6 -> Keyword \o <<" ", "x", " ", "{", "\"", "p", "\"", ":", "\"">>
                  \o Keyword \o <<" ", "f", "s", " ", "l", "s", " ", "{", "\"", "}">>
      [] k = 7 -> <<"o", "k", " ", "s", "o", " ">>
      [] k = 8 -> <<NL>>
      [] k = 9 -> <<"{", "\"", "a", "\"", ":", "1", "}">>
      [] k = 10 -> Keyword \o <<" ">>
      [] OTHER -> Keyword \o <<" ", "c", "a", "t", " ", "{">>

FragKinds == 1..11

RECURSIVE Concat(_, _)
Concat(ks, i) == IF i > Len(ks) THEN <<>> ELSE Frag(ks[i]) \o Concat(ks, i + 1)

Texts == {Concat(ks, 1) : ks \in UNION {[1..n -> FragKinds] : n \in 0..MaxFrags}}

----------------------------------------------------------------------------
(* The extractor as a unit: a text comes in, extractToolCalls scans it *)

InitEx ==
    /\ exPc = "idle"
    /\ exText = <<>>
    /\ exReq = NoRequest
    /\ exCalls = <<>>

\* extractToolCalls(content) on a model reply
ExtractText(text) ==
    /\ exPc = "idle"
    /\ exPc' = "done"
    /\ exText' = text
    /\ exReq' = NoRequest
    /\ exCalls' = extractToolCalls(text)
    /\ UNCHANGED othersEx

\* extractToolCalls on the directive a request is formatted into
ExtractFormatted(req) ==
    /\ exPc = "idle"
    /\ exPc' = "done"
    /\ exText' = FormatDirective(req)
    /\ exReq' = req
    /\ exCalls' = extractToolCalls(FormatDirective(req))
    /\ UNCHANGED othersEx

\* the caller is done with the result
ExtractReturn ==
    /\ exPc = "done"
    /\ exPc' = "idle"
    /\ exText' = <<>>
    /\ exReq' = NoRequest
    /\ exCalls' = <<>>
    /\ UNCHANGED othersEx

NextEx ==
    \/ \E text \in Texts : ExtractText(text)
    \/ \E req \in Requests : ExtractFormatted(req)
    \/ ExtractReturn

----------------------------------------------------------------------------
(* The tool round trip of OllamaWithMCPProvider.  Texts are sequences of    *)
(* pieces, so that a prefix can be put in front of a message.               *)

MaxToolCalls == 2   \* tool calls in one completion

\* the provider as executeMCPChat constructs it
mcpEnabled == TRUE

\* the content of a message that has none
Undefined == <<"undefined">>

\* function.name of a tool call, split after its prefix
ToolFunctionNames == {<<"ollama_", "chat">>, <<"ollama_", "llama3">>, <<"fs_", "ls">>}

\* function.arguments of a tool call: a JSON text, or not one
ToolFunctionArguments == {<<"{", "}">>, <<"{", "p">>}

ToolFunctions == [name : ToolFunctionNames, arguments : ToolFunctionArguments]

\* tool_calls arrays, the ids in the order of the calls
ToolCallsOf(fs) == [i \in 1..Len(fs) |-> [id |-> i, function |-> fs[i]]]

ToolCallArrays ==
    {ToolCallsOf(fs) : fs \in UNION {[1..n -> ToolFunctions] : n \in 0..MaxToolCalls}}

NoCompletion == [content |-> <<>>, has_tool_calls |-> FALSE, tool_calls |-> <<>>]

\* what the model can answer the first call with
FirstReplies ==
    [content : {Undefined, <<"a1">>}, has_tool_calls : {TRUE}, tool_calls : ToolCallArrays]
    \cup [content : {Undefined, <<"a1">>}, has_tool_calls : {FALSE}, tool_calls : {<<>>}]

\* what the model can answer the follow-up call with
FollowUpReplies ==
    [content : {<<"a2">>}, has_tool_calls : {TRUE},
     tool_calls : {ToolCallsOf(<<[name |-> <<"fs_", "ls">>, arguments |-> <<"{", "}">>]>>)}]
    \cup [content : {<<"a2">>}, has_tool_calls : {FALSE}, tool_calls : {<<>>}]

\* what a model call can throw
ModelErrors == {"connect ECONNREFUSED", "model not found"}

Conversations == {<< [role |-> "user", content |-> <<"q">>, tool_call_id |-> 0,
                      tool_calls |-> <<>>] >>}

\* the choices[0].message of a reply, tool_calls kept when there are any
adaptBlank(response) ==
    [content |-> <<>>, has_tool_calls |-> response.has_tool_calls,
     tool_calls |-> response.tool_calls]

adaptToCompletionResponse(response) ==
    [content |-> response.content, has_tool_calls |-> response.has_tool_calls,
     tool_calls |-> response.tool_calls]

\* completion.choices[0].message.tool_calls is truthy
HasToolCalls(message) == message.has_tool_calls

\* !toolCalls || toolCalls.length === 0
NoToolCallsNever(message) == FALSE

NoToolCalls(message) == ~message.has_tool_calls \/ Len(message.tool_calls) = 0

\* { ...message, role: 'assistant' }, content '' when it was undefined
AssistantMessage(message) ==
    [role |-> "assistant",
     content |-> IF message.content = Undefined THEN <<>> ELSE message.content,
     tool_call_id |-> 0,
     tool_calls |-> message.tool_calls]

\* JSON.parse(toolCall.function.arguments), {} when it throws
ToolArgs(toolCall) ==
    LET r == JsonParse(toolCall.function.arguments) IN
    IF r.ok THEN r.v ELSE JObj({})

\* callOllamaChat, callOllamaCompletion: the reply, or the failure as a result
callOllamaChat ==
    {[thrown |-> FALSE, isError |-> FALSE, text |-> <<"hello">>],
     [thrown |-> FALSE, isError |-> TRUE, text |-> <<"error: ", "fetch failed">>]}

callOllamaCompletion ==
    {[thrown |-> FALSE, isError |-> FALSE, text |-> <<"done">>],
     [thrown |-> FALSE, isError |-> TRUE, text |-> <<"error: ", "server error 500">>]}

\* the ways callOllamaTool(toolName, args) can settle
callOllamaTool(toolName, args) ==
    IF toolName = <<"ollama_", "chat">> THEN callOllamaChat
    ELSE IF toolName[1] = "ollama_" THEN callOllamaCompletion
    ELSE {[thrown |-> TRUE, isError |-> FALSE, text |-> <<"unknown tool: ">> \o toolName]}

\* the content of the tool message: the result's text, or the thrown
\* error's message behind a prefix
resultContentBlank(outcome) == <<>>

resultContent(outcome) ==
    IF outcome.thrown THEN <<"tool call error: ">> \o outcome.text
    ELSE outcome.text

ToolMessage(toolCall, outcome) ==
    [role |-> "tool", content |-> resultContent(outcome),
     tool_call_id |-> toolCall.id, tool_calls |-> <<>>]

\* the calls the loop invokes from call i on before it awaits: call i alone,
\* none when the array is exhausted
LaunchAll(i, n) == i..n

Launch(i, n) == IF i <= n THEN {i} ELSE {}

ModelEvent == [e |-> "model", i |-> 0]

StartEvents(i, calls) ==
    [k \in 1..Cardinality(calls) |-> [e |-> "start", i |-> i + k - 1]]

EndEvent(i) == [e |-> "end", i |-> i]

\* catch (error) { ...; throw error }
RethrowWrapped(error) == "chat completion failed"

Rethrow(error) == error

InitRt ==
    /\ rtPc = "idle"
    /\ rtMessages = <<>>
    /\ rtCompletion = NoCompletion
    /\ rtNewMessages = <<>>
    /\ rtStarted = 0
    /\ rtInFlight = {}
    /\ rtResult = NoCompletion
    /\ rtError = ""
    /\ rtTrace = <<>>
    /\ rtReplies = <<>>
    /\ rtOutcomes = <<>>
    /\ rtModelErr = ""

\* chatCompletionWithTools up to the first model call
ChatCompletionWithTools(messages) ==
    /\ rtPc = "idle"
    /\ mcpEnabled
    /\ rtPc' = "first"
    /\ rtMessages' = messages
    /\ rtTrace' = Append(rtTrace, ModelEvent)
    /\ UNCHANGED <<rtCompletion, rtNewMessages, rtStarted, rtInFlight, rtResult,
                   rtError, rtReplies, rtOutcomes, rtModelErr>>
    /\ UNCHANGED othersRt

\* the first model call resolves: the completion is returned, or
\* processToolCalls runs up to its first await.  Every tool call carries a
\* function, as the ToolCall type has it.
FirstCompletion(reply) ==
    /\ rtPc = "first"
    /\ LET completion == adaptToCompletionResponse(reply)
           message    == completion
           n          == Len(message.tool_calls)
           calls      == Launch(1, n)
       IN /\ rtReplies' = Append(rtReplies, reply)
          /\ rtCompletion' = completion
          /\ IF HasToolCalls(message) /\ ~NoToolCalls(message)
             THEN /\ rtPc' = IF calls = {} THEN "second" ELSE "tools"
                  /\ rtNewMessages' = Append(rtMessages, AssistantMessage(message))
                  /\ rtInFlight' = calls
                  /\ rtStarted' = Cardinality(calls)
                  /\ rtTrace' = rtTrace \o (IF calls = {} THEN <<ModelEvent>>
                                            ELSE StartEvents(1, calls))
                  /\ UNCHANGED rtResult
             ELSE /\ rtPc' = "done"
                  /\ rtResult' = completion
                  /\ UNCHANGED <<rtNewMessages, rtInFlight, rtStarted, rtTrace>>
    /\ UNCHANGED <<rtMessages, rtError, rtOutcomes, rtModelErr>>
    /\ UNCHANGED othersRt

\* the first model call rejects
FirstCompletionFails(error) ==
    /\ rtPc = "first"
    /\ rtPc' = "failed"
    /\ rtModelErr' = error
    /\ rtError' = Rethrow(error)
    /\ UNCHANGED <<rtMessages, rtCompletion, rtNewMessages, rtStarted, rtInFlight,
                   rtResult, rtTrace, rtReplies, rtOutcomes>>
    /\ UNCHANGED othersRt

\* a tool call settles: its message is pushed, and the loop goes on to the
\* next tool call or, after the last one, to the follow-up model call
ToolCallSettles(i) ==
    /\ rtPc = "tools"
    /\ i \in rtInFlight
    /\ \E outcome \in callOllamaTool(rtCompletion.tool_calls[i].function.name,
                                     ToolArgs(rtCompletion.tool_calls[i])) :
       LET toolCalls == rtCompletion.tool_calls
           n         == Len(toolCalls)
           left      == rtInFlight \ {i}
           more      == left = {} /\ rtStarted < n
           last      == left = {} /\ rtStarted >= n
           calls     == Launch(rtStarted + 1, n)
       IN /\ rtNewMessages' = Append(rtNewMessages, ToolMessage(toolCalls[i], outcome))
          /\ rtOutcomes' = Append(rtOutcomes, [i |-> i, outcome |-> outcome])
          /\ rtInFlight' = IF more THEN calls ELSE left
          /\ rtStarted' = IF more THEN rtStarted + Cardinality(calls) ELSE rtStarted
          /\ rtTrace' = rtTrace \o <<EndEvent(i)>>
                        \o (IF more THEN StartEvents(rtStarted + 1, calls)
                            ELSE IF last THEN <<ModelEvent>> ELSE <<>>)
          /\ rtPc' = IF last THEN "second" ELSE "tools"
    /\ UNCHANGED <<rtMessages, rtCompletion, rtResult, rtError, rtReplies, rtModelErr>>
    /\ UNCHANGED othersRt

\* the follow-up model call resolves: its completion is the result
FollowUpCompletion(reply) ==
    /\ rtPc = "second"
    /\ rtPc' = "done"
    /\ rtReplies' = Append(rtReplies, reply)
    /\ rtResult' = adaptToCompletionResponse(reply)
    /\ UNCHANGED <<rtMessages, rtCompletion, rtNewMessages, rtStarted, rtInFlight,
                   rtError, rtTrace, rtOutcomes, rtModelErr>>
    /\ UNCHANGED othersRt

\* the follow-up model call rejects
FollowUpCompletionFails(error) ==
    /\ rtPc = "second"
    /\ rtPc' = "failed"
    /\ rtModelErr' = error
    /\ rtError' = Rethrow(error)
    /\ UNCHANGED <<rtMessages, rtCompletion, rtNewMessages, rtStarted, rtInFlight,
                   rtResult, rtTrace, rtReplies, rtOutcomes>>
    /\ UNCHANGED othersRt

NextRt ==
    \/ \E messages \in Conversations : ChatCompletionWithTools(messages)
    \/ \E reply \in FirstReplies : FirstCompletion(reply)
    \/ \E error \in ModelErrors : FirstCompletionFails(error)
    \/ \E i \in 1..MaxToolCalls : ToolCallSettles(i)
    \/ \E reply \in FollowUpReplies : FollowUpCompletion(reply)
    \/ \E error \in ModelErrors : FollowUpCompletionFails(error)

----------------------------------------------------------------------------
(* The tool registry: MCPClient, MCPMultiClient and findServerForTool.      *)
(* A tool name is the sequence of its parts between the dots.  Every server *)
(* is given one MCPClient.                                                  *)

RegServers == {"a", "b"}

RegTools == {<<"search">>}

\* what a tools/list request may come to: it fails or the response has no
\* result.tools, or the response lists some tools
ListAnswers == [kind : {"fail"}, tools : {{}}] \cup [kind : {"tools"}, tools : SUBSET RegTools]

\* what a server may answer a tools/call request with: the request fails,
\* a JSON-RPC error, a result the tool marked as an error, a result
CallAnswers == {"throw", "rpcerror", "toolerror", "ok"}

NoCache == [set |-> FALSE, tools |-> {}]

\* new MCPClient({ serverId })
NewClient(serverId) == [serverId |-> serverId, toolCache |-> NoCache]

Request(serverId, method) == [server |-> serverId, method |-> method]

\* useCache && this.toolCache
CacheHitNever(useCache, toolCache) == FALSE

CacheHit(useCache, toolCache) == useCache /\ toolCache.set

\* the cache after a tools/list request that failed or brought no tools:
\* nothing is assigned
OnListFailureCached(toolCache) == [set |-> TRUE, tools |-> {}]

OnListFailure(toolCache) == toolCache

\* MCPClient.listTools: the cache after it, what it returns, what it sent
listTools(client, useCache, answer) ==
    IF CacheHit(useCache, client.toolCache)
    THEN [toolCache |-> client.toolCache, tools |-> client.toolCache.tools, sent |-> <<>>]
    ELSE IF answer.kind = "tools"
    THEN [toolCache |-> [set |-> TRUE, tools |-> answer.tools], tools |-> answer.tools,
          sent |-> <<Request(client.serverId, "tools/list")>>]
    ELSE [toolCache |-> OnListFailure(client.toolCache), tools |-> {},
          sent |-> <<Request(client.serverId, "tools/list")>>]

\* a tool result built by the client for an error
ErrorResultOk(serverId, text) ==
    [isError |-> FALSE, text |-> text, from |-> serverId, cause |-> ""]

ErrorResult(serverId, text) ==
    [isError |-> TRUE, text |-> text, from |-> serverId, cause |-> ""]

\* a result the server sent
ServerResult(serverId, isError, text) ==
    [isError |-> isError, text |-> text, from |-> serverId, cause |-> ""]

\* tools.some(tool => tool.name === toolName)
SupportedAlways(tools, toolName) == TRUE

Supported(tools, toolName) == toolName \in tools

\* the try block of MCPClient.callTool: a result, or an error thrown
TryCallTool(client, tools, toolName, answer) ==
    IF ~Supported(tools, toolName)
    THEN [thrown |-> TRUE, result |-> ErrorResult(client.serverId, "not supported"), sent |-> <<>>]
    ELSE [thrown |-> answer = "throw",
          result |-> CASE answer = "throw" -> ErrorResult(client.serverId, "response error")
                       [] answer = "rpcerror" -> ErrorResult(client.serverId, "rpc error")
                       [] answer = "toolerror" ->
                              ServerResult(client.serverId, TRUE, "tool failed")
                       [] OTHER -> ServerResult(client.serverId, FALSE, "ok"),
          sent |-> <<Request(client.serverId, "tools/call")>>]

\* does an error thrown in the try block leave MCPClient.callTool: the
\* catch returns a result for every error
EscapesThrown(t) == t.thrown

Escapes(t) == FALSE

\* MCPClient.callTool: the catch turns whatever was thrown into a result
clientCallTool(client, toolName, listAnswer, callAnswer) ==
    LET l == listTools(client, TRUE, listAnswer)
        t == TryCallTool(client, l.tools, toolName, callAnswer)
    IN [toolCache |-> l.toolCache, thrown |-> Escapes(t), result |-> t.result,
        sent |-> l.sent \o t.sent]

NoResult == [isError |-> FALSE, text |-> "", from |-> "", cause |-> ""]

NoListAnswer == [kind |-> "fail", tools |-> {}]

NoOp == [op |-> "none", tool |-> <<>>, server |-> "", useCache |-> FALSE,
         answer |-> NoListAnswer, calls |-> [s \in RegServers |-> "throw"]]

NoOut == [result |-> NoResult, tools |-> {}, raised |-> FALSE]

\* the client of a server, with another cache
WithCache(clients, serverId, toolCache) ==
    MapSet(clients, serverId, [MapGet(clients, serverId) EXCEPT !.toolCache = toolCache])

\* this.toolServerMap.get(toolName) || []
getServerIdsForTool(map, toolName) ==
    IF toolName \in DOMAIN map THEN map[toolName] ELSE <<>>

\* the tools of one client entered into the map, each under its name
AddTools(map, tools, serverId) ==
    [t \in DOMAIN map |-> IF t \in tools THEN Append(map[t], serverId) ELSE map[t]]

\* the loop of MCPMultiClient.initialize from the k-th client on
RECURSIVE InitializeFrom(_, _, _, _, _)
InitializeFrom(k, clients, map, answers, sent) ==
    IF k > Len(clients) THEN [clients |-> clients, map |-> map, sent |-> sent]
    ELSE LET serverId == clients[k][1]
             l        == listTools(clients[k][2], TRUE, answers[serverId])
         IN InitializeFrom(k + 1, WithCache(clients, serverId, l.toolCache),
                           AddTools(map, l.tools, serverId), answers, sent \o l.sent)

\* MCPMultiClient.initialize
initialize(done, clients, map, answers) ==
    IF done THEN [clients |-> clients, map |-> map, sent |-> <<>>]
    ELSE InitializeFrom(1, clients, map, answers, <<>>)

\* the catch in the loop of MCPMultiClient.callTool is entered when
\* client.callTool threw
AdvanceOnError(r) == r.thrown \/ r.result.isError

Advance(r) == r.thrown

\* the loop of MCPMultiClient.callTool from the k-th owner on
RECURSIVE CallOwnersFrom(_, _, _, _, _, _, _, _)
CallOwnersFrom(k, serverIds, clients, toolName, answers, calls, sent, lastError) ==
    IF k > Len(serverIds)
    THEN [clients |-> clients, sent |-> sent,
          result |-> [ErrorResult("", "all servers failed") EXCEPT !.cause = lastError]]
    ELSE IF ~MapHas(clients, serverIds[k])
    THEN CallOwnersFrom(k + 1, serverIds, clients, toolName, answers, calls, sent, lastError)
    ELSE LET r == clientCallTool(MapGet(clients, serverIds[k]), toolName,
                                 answers[serverIds[k]], calls[serverIds[k]])
             clients2 == WithCache(clients, serverIds[k], r.toolCache)
         IN IF Advance(r)
            THEN CallOwnersFrom(k + 1, serverIds, clients2, toolName, answers, calls,
                                sent \o r.sent, r.result.text)
            ELSE [clients |-> clients2, sent |-> sent \o r.sent, result |-> r.result]

\* MCPMultiClient.callTool after initialize
callTool(clients, map, toolName, answers, calls) ==
    LET serverIds == getServerIdsForTool(map, toolName) IN
    IF Len(serverIds) = 0
    THEN [clients |-> clients, sent |-> <<>>, result |-> ErrorResult("", "no server for tool")]
    ELSE CallOwnersFrom(1, serverIds, clients, toolName, answers, calls, <<>>, "null")

InitReg ==
    /\ regClients = <<>>
    /\ toolServerMap = [t \in RegTools |-> <<>>]
    /\ initialized = FALSE
    /\ regOp = NoOp
    /\ regLog = <<>>
    /\ regOut = NoOut

\* multiClient.addClient(serverId, new MCPClient({ serverId }))
AddClient(serverId) ==
    /\ ~MapHas(regClients, serverId)
    /\ regClients' = MapSet(regClients, serverId, NewClient(serverId))
    /\ regOp' = [NoOp EXCEPT !.op = "addClient", !.server = serverId]
    /\ regLog' = <<>>
    /\ regOut' = NoOut
    /\ UNCHANGED <<toolServerMap, initialized>>
    /\ UNCHANGED othersReg

\* client.listTools(useCache) on the MCPClient of a server
ClientListTools(serverId, useCache, answer) ==
    /\ MapHas(regClients, serverId)
    /\ LET l == listTools(MapGet(regClients, serverId), useCache, answer) IN
       /\ regClients' = WithCache(regClients, serverId, l.toolCache)
       /\ regLog' = l.sent
       /\ regOut' = [NoOut EXCEPT !.tools = l.tools]
    /\ regOp' = [NoOp EXCEPT !.op = "listTools", !.server = serverId,
                             !.useCache = useCache, !.answer = answer]
    /\ UNCHANGED <<toolServerMap, initialized>>
    /\ UNCHANGED othersReg

\* client.callTool(toolName, args) on the MCPClient of a server
ClientCallTool(serverId, toolName, answer, call) ==
    /\ MapHas(regClients, serverId)
    /\ LET r == clientCallTool(MapGet(regClients, serverId), toolName, answer, call) IN
       /\ regClients' = WithCache(regClients, serverId, r.toolCache)
       /\ regLog' = r.sent
       /\ regOut' = [NoOut EXCEPT !.result = r.result, !.raised = r.thrown]
    /\ regOp' = [NoOp EXCEPT !.op = "clientCallTool", !.server = serverId, !.tool = toolName,
                             !.calls = [s \in RegServers |-> call]]
    /\ UNCHANGED <<toolServerMap, initialized>>
    /\ UNCHANGED othersReg

\* multiClient.initialize()
Initialize(answers) ==
    /\ LET i == initialize(initialized, regClients, toolServerMap, answers) IN
       /\ regClients' = i.clients
       /\ toolServerMap' = i.map
       /\ regLog' = i.sent
    /\ initialized' = TRUE
    /\ regOp' = [NoOp EXCEPT !.op = "initialize"]
    /\ regOut' = NoOut
    /\ UNCHANGED othersReg

\* multiClient.callTool(toolName, args)
CallTool(toolName, answers, calls) ==
    /\ LET i == initialize(initialized, regClients, toolServerMap, answers)
           c == callTool(i.clients, i.map, toolName, answers, calls)
       IN /\ regClients' = c.clients
          /\ toolServerMap' = i.map
          /\ regLog' = i.sent \o c.sent
          /\ regOut' = [NoOut EXCEPT !.result = c.result]
    /\ initialized' = TRUE
    /\ regOp' = [NoOp EXCEPT !.op = "callTool", !.tool = toolName, !.calls = calls]
    /\ UNCHANGED othersReg

CallNames == RegTools \cup {<<"rm">>}

NextReg ==
    \/ \E serverId \in RegServers : AddClient(serverId)
    \/ \E serverId \in RegServers, useCache \in BOOLEAN, answer \in ListAnswers :
           ClientListTools(serverId, useCache, answer)
    \/ \E serverId \in RegServers, toolName \in CallNames, answer \in ListAnswers,
          call \in CallAnswers : ClientCallTool(serverId, toolName, answer, call)
    \/ \E answers \in [RegServers -> ListAnswers] : Initialize(answers)
    \/ \E toolName \in CallNames, answers \in [RegServers -> ListAnswers],
          calls \in [RegServers -> CallAnswers] : CallTool(toolName, answers, calls)

----------------------------------------------------------------------------
(* findServerForTool over the Map of SDK clients it is handed *)

\* the names findServerForTool is asked for, and the names the servers behind
\* the SDK clients declare
LookupNames == {<<"search">>, <<"ls">>, <<"a", "search">>, <<"c", "search">>,
                <<"a__search">>}

SdkTools == {<<"search">>, <<"c", "search">>}

\* client.listTools() of an SDK client: it throws, or lists some tools
SdkAnswers ==
    [kind : {"throw"}, tools : {{}}] \cup [kind : {"tools"}, tools : SUBSET SdkTools]

\* the keys of the Map<string, Client>, in insertion order
ClientOrders == {<<>>, <<"a">>, <<"b">>, <<"a", "b">>, <<"b", "a">>}

\* clients.has(serverId)
ClientsHas(clients, serverId) == \E i \in 1..Len(clients) : clients[i] = serverId

\* the search loop of findServerForTool from the k-th client on
RECURSIVE SearchFrom(_, _, _, _, _)
SearchFrom(k, clients, toolName, answers, sent) ==
    IF k > Len(clients) THEN [server |-> "", sent |-> sent]
    ELSE LET ask == Append(sent, Request(clients[k], "tools/list")) IN
         IF answers[clients[k]].kind = "tools" /\ toolName \in answers[clients[k]].tools
         THEN [server |-> clients[k], sent |-> ask]
         ELSE SearchFrom(k + 1, clients, toolName, answers, ask)

\* toolName.includes('.'), and the part before the first dot is a key
QualifiedHitNever(clients, toolName) == FALSE

QualifiedHit(clients, toolName) == Len(toolName) > 1 /\ ClientsHas(clients, toolName[1])

\* the order in which the search loop visits the clients
VisitReversed(clients) == [i \in 1..Len(clients) |-> clients[Len(clients) + 1 - i]]

Visit(clients) == clients

findServerForTool(clients, toolName, answers) ==
    IF QualifiedHit(clients, toolName)
    THEN [server |-> toolName[1], sent |-> <<>>]
    ELSE SearchFrom(1, Visit(clients), toolName, answers, <<>>)

NoFindCall == [done |-> FALSE, clients |-> <<>>, toolName |-> <<>>,
               answers |-> [s \in RegServers |-> [kind |-> "throw", tools |-> {}]],
               server |-> "", sent |-> <<>>]

InitFind == findCall = NoFindCall

\* findServerForTool(clients, toolName)
FindServerForTool(clients, toolName, answers) ==
    /\ LET f == findServerForTool(clients, toolName, answers) IN
       findCall' = [done |-> TRUE, clients |-> clients, toolName |-> toolName,
                    answers |-> answers, server |-> f.server, sent |-> f.sent]
    /\ UNCHANGED othersFind

NextFind ==
    \E clients \in ClientOrders, toolName \in LookupNames,
       answers \in [RegServers -> SdkAnswers] :
        FindServerForTool(clients, toolName, answers)

----------------------------------------------------------------------------
(* The server configuration (mcp/config.ts ServerConfigManager, printed in  *)
(* server.js, and MCPServerManager.loadServerConfigs of mcp/server.ts).     *)
(* A configuration file is what the file system answers during one call:    *)
(* whether fs.access finds it, whether fs.readFile can read it, its text.   *)

\* the property names the code reads
Key ==
    [mcpServers   |-> <<"m", "c", "p", "S", "e", "r", "v", "e", "r", "s">>,
     servers      |-> <<"s", "e", "r", "v", "e", "r", "s">>,
     id           |-> <<"i", "d">>,
     name         |-> <<"n", "a", "m", "e">>,
     command      |-> <<"c", "o", "m", "m", "a", "n", "d">>,
     args         |-> <<"a", "r", "g", "s">>,
     env          |-> <<"e", "n", "v">>,
     cwd          |-> <<"c", "w", "d">>,
     capabilities |-> <<"c", "a", "p", "a", "b", "i", "l", "i", "t", "i", "e", "s">>]

\* undefined
JUndef == [t |-> "undef", s |-> <<>>, n |-> 0, o |-> {}]

EmptyList == JArr({})

\* ToBoolean
Truthy(v) ==
    \/ v.t \in {"obj", "arr"}
    \/ v.t = "str" /\ v.s # <<>>
    \/ v.t = "num" /\ v.n # 0

\* reading a property of null or undefined is a TypeError
NoProps(v) == v.t \in {"null", "undef"}

\* v[key] for a key that is no array index and not "length"
GetProp(v, key) ==
    IF v.t = "obj" /\ \E m \in v.o : m[1] = key
    THEN (CHOOSE m \in v.o : m[1] = key)[2]
    ELSE JUndef

\* a || d
OrElse(a, d) == IF Truthy(a) THEN a ELSE d

\* a key that is a canonical array index
IsIndex(key) ==
    /\ key # <<>>
    /\ \A i \in 1..Len(key) : key[i] \in Digits
    /\ DecimalText(DecimalVal(key)) = key

\* Object.entries: index keys first in ascending order, then the other keys
\* in the order they were written, which a parsed object of this model does
\* not keep (the files below write at most one such key in an object); the
\* characters of a string by index; nothing for a number
ObjectEntries(v) ==
    IF v.t = "str"
    THEN [i \in 1..Len(v.s) |-> <<DecimalText(i - 1), JStr(<<v.s[i]>>)>>]
    ELSE IF v.t \in {"obj", "arr"}
    THEN CHOOSE es \in [1..Cardinality(v.o) -> v.o] :
             /\ \A m \in v.o : \E i \in 1..Cardinality(v.o) : es[i] = m
             /\ \A i, j \in 1..Cardinality(v.o) :
                    i < j => \/ ~IsIndex(es[j][1])
                             \/ /\ IsIndex(es[i][1])
                                /\ DecimalVal(es[i][1]) < DecimalVal(es[j][1])
    ELSE <<>>

\* process.cwd()
ProcessCwd == JStr(<<"/">>)

\* the callback of serverEntries.map
ServerOfEntry(id, config) ==
    JObj({<<Key.id, JStr(id)>>,
          <<Key.name, GetProp(config, Key.name)>>,
          <<Key.command, GetProp(config, Key.command)>>,
          <<Key.args, OrElse(GetProp(config, Key.args), JArr({}))>>,
          <<Key.env, OrElse(GetProp(config, Key.env), JObj({}))>>,
          <<Key.cwd, OrElse(GetProp(config, Key.cwd), ProcessCwd)>>,
          <<Key.capabilities, OrElse(GetProp(config, Key.capabilities), JArr({}))>>})

Thrown == [thrown |-> TRUE, servers |-> JUndef]

\* serverEntries.map(...): the servers array, or thrown when an entry's
\* value has no properties to read
MapEntries(serverEntries) ==
    IF \E i \in 1..Len(serverEntries) : NoProps(serverEntries[i][2])
    THEN Thrown
    ELSE [thrown  |-> FALSE,
          servers |-> JArr({<<DecimalText(i - 1),
                              ServerOfEntry(serverEntries[i][1],
                                            serverEntries[i][2])>> :
                            i \in 1..Len(serverEntries)})]

\* the format check of load and its assignment to this.config.servers
LoadRaw(rawConfig) ==
    IF NoProps(rawConfig) THEN Thrown
    ELSE IF Truthy(GetProp(rawConfig, Key.mcpServers))
    THEN MapEntries(ObjectEntries(GetProp(rawConfig, Key.mcpServers)))
    ELSE IF Truthy(GetProp(rawConfig, Key.servers))
    THEN [thrown |-> FALSE, servers |-> GetProp(rawConfig, Key.servers)]
    ELSE [thrown |-> FALSE, servers |-> EmptyList]

\* const rawConfig = JSON.parse(content)
LoadParsed(parsed) == IF parsed.ok THEN LoadRaw(parsed.v) ELSE Thrown

\* load, from readFile to the end of the outer try: the value assigned to
\* this.config.servers, or thrown for an error raised before an assignment
LoadTry(file) ==
    IF file.readable THEN LoadParsed(JsonParse(file.text)) ELSE Thrown

\* the outer catch of load
OnErrorKeep(before) == before

OnError(before) == EmptyList

\* the outcome of the outer try of load
Settle(r, before) == IF r.thrown THEN OnError(before) ELSE r.servers

\* ServerConfigManager.load: this.config.servers after the call
load(before, file) ==
    IF file.exists THEN Settle(LoadTry(file), before) ELSE EmptyList

\* return this.configManager.getServers()
Loaded(after) == [servers |-> after, returned |-> after]

\* MCPServerManager.loadServerConfigs: this.config.servers after the call
\* and the list returned
loadServerConfigs(before, file) ==
    IF file.exists THEN Loaded(load(before, file))
    ELSE [servers |-> before, returned |-> EmptyList]

\* the texts of the configuration files: an object with any of the two
\* top-level properties, such a text cut short, and values of other kinds
ConfigTexts ==
    LET quoted(key)       == <<"\"">> \o key \o <<"\"">>
        member(key, text) == quoted(key) \o <<":">> \o text
        braces(members)   ==
            <<"{">>
            \o (IF Len(members) = 0 THEN <<>>
                ELSE IF Len(members) = 1 THEN members[1]
                ELSE members[1] \o <<",">> \o members[2])
            \o <<"}">>
        configs   == {braces(<<>>),
                      braces(<<member(Key.command, quoted(<<"l", "s">>))>>),
                      <<"n", "u", "l", "l">>}
        mcpValues == {braces(<<>>), <<"0">>, quoted(<<"a">>)}
                     \cup {braces(<<member(<<"a">>, c)>>) : c \in configs}
                     \cup {braces(<<member(<<"1">>, braces(<<>>)),
                                    member(<<"0">>, braces(<<>>))>>)}
        srvValues == {<<"[", "]">>, <<"0">>,
                      <<"[">> \o braces(<<member(Key.id, quoted(<<"a">>))>>) \o <<"]">>}
        oneKey    == {braces(<<>>), braces(<<member(<<"x">>, <<"1">>)>>)}
                     \cup {braces(<<member(Key.mcpServers, m)>>) : m \in mcpValues}
                     \cup {braces(<<member(Key.servers, v)>>) : v \in srvValues}
        twoKeys   == {braces(<<member(Key.mcpServers, m), member(Key.servers, v)>>) :
                          m \in mcpValues, v \in srvValues}
    IN oneKey
       \cup twoKeys
       \cup {SubSeq(t, 1, Len(t) - 1) : t \in oneKey}
       \cup {<<>>, <<"n", "u", "l", "l">>, <<"1">>, quoted(<<"a">>), <<"[", "]">>}

ConfigFiles ==
    {[exists |-> FALSE, readable |-> FALSE, text |-> <<>>],
     [exists |-> TRUE, readable |-> FALSE, text |-> <<>>]}
    \cup {[exists |-> TRUE, readable |-> TRUE, text |-> t] : t \in ConfigTexts}

NoFile == [exists |-> FALSE, readable |-> FALSE, text |-> <<>>]

NoCfgCall ==
    [op |-> "none", file |-> NoFile, before |-> EmptyList,
     returned |-> JUndef, raised |-> FALSE]

InitCfg ==
    /\ cfgServers = EmptyList
    /\ cfgCall = NoCfgCall

\* await configManager.load()
Load(file) ==
    /\ cfgServers' = load(cfgServers, file)
    /\ cfgCall' = [op |-> "load", file |-> file, before |-> cfgServers,
                   returned |-> JUndef, raised |-> FALSE]
    /\ UNCHANGED othersCfg

\* await serverManager.loadServerConfigs()
LoadServerConfigs(file) ==
    /\ cfgServers' = loadServerConfigs(cfgServers, file).servers
    /\ cfgCall' = [op |-> "loadServerConfigs", file |-> file,
                   before |-> cfgServers,
                   returned |-> loadServerConfigs(cfgServers, file).returned,
                   raised |-> FALSE]
    /\ UNCHANGED othersCfg

\* configManager.getServers()
GetServers ==
    /\ cfgCall' = [op |-> "getServers", file |-> NoFile, before |-> cfgServers,
                   returned |-> cfgServers, raised |-> FALSE]
    /\ UNCHANGED cfgServers
    /\ UNCHANGED othersCfg

NextCfg ==
    \/ \E file \in ConfigFiles : Load(file)
    \/ \E file \in ConfigFiles : LoadServerConfigs(file)
    \/ GetServers

----------------------------------------------------------------------------
(* Bootstrap and commands: initializeMcpServers and executeMcpCommand of     *)
(* index.ts (printed in unnamed/part_001 and part_002) and of                *)
(* core/mcp-executor.ts.  The manager is seen through what these functions   *)
(* use of it: isServerRunning, and startServer, which tracks the id when it  *)
(* has spawned the child and whose promise settles later.  getAllTools and   *)
(* callTool of mcp/client.js are not part of the sources; a command that     *)
(* reaches them is recorded as handed over.                                  *)

\* what loadServerConfigs may return: configurations with distinct ids
BootConfigs ==
    {<<>>} \cup {<<a>> : a \in ServerIds}
    \cup {<<p[1], p[2]>> : p \in {q \in ServerIds \X ServerIds : q[1] # q[2]}}

Commands == {"tools/list", "tools/call", "other"}

NoManager == [set |-> FALSE, live |-> {}, died |-> {}]

NoBoot ==
    [pc |-> "idle", configs |-> <<>>, before |-> {},
     attempts |-> [id \in ServerIds |-> 0], results |-> <<>>,
     successful |-> <<>>, k |-> 0, returned |-> <<>>, raised |-> FALSE]

NoCmd == [pc |-> "idle", serverId |-> "", command |-> "", confirm |-> FALSE,
          outcome |-> "", handed |-> FALSE]

\* the callbacks of serverConfigs.map from the k-th configuration on, each
\* up to its await: a running server is a success without a start, a
\* startServer that throws before it tracks the child is a failure, any
\* other start is tracked and pending
RECURSIVE StartEach(_, _, _, _, _)
StartEach(k, configs, mgr, b, throws) ==
    IF k > Len(configs) THEN [mgr |-> mgr, boot |-> b]
    ELSE LET id == configs[k] IN
         IF id \in mgr.live
         THEN StartEach(k + 1, configs, mgr,
                        [b EXCEPT !.results = Append(@, "ok")], throws)
         ELSE IF throws[id]
         THEN StartEach(k + 1, configs, mgr,
                        [b EXCEPT !.results = Append(@, "fail"),
                                  !.attempts[id] = @ + 1], throws)
         ELSE StartEach(k + 1, configs,
                        [mgr EXCEPT !.live = @ \cup {id}, !.died = @ \ {id}],
                        [b EXCEPT !.results = Append(@, "pending"),
                                  !.attempts[id] = @ + 1], throws)

\* initializeMcpServers up to await Promise.all(startPromises)
BeginBoot(mgr, configs, throws) ==
    IF configs = <<>>
    THEN [mgr  |-> [mgr EXCEPT !.set = TRUE],
          boot |-> [NoBoot EXCEPT !.pc = "done", !.before = mgr.live]]
    ELSE StartEach(1, configs, [mgr EXCEPT !.set = TRUE],
                   [NoBoot EXCEPT !.pc = "starting", !.configs = configs,
                                  !.before = mgr.live], throws)

\* results.filter(r => r.success).map(r => r.id)
SuccessfulAll(configs, results) == configs

Successful(configs, results) ==
    LET ok == {i \in 1..Len(configs) : results[i] = "ok"} IN
    [j \in 1..Cardinality(ok) |->
        configs[CHOOSE i \in ok : Cardinality({h \in ok : h < i}) = j - 1]]

\* sdkMcpClients.set(serverId, client)
ClientsSet(clients, serverId) ==
    IF \E i \in 1..Len(clients) : clients[i] = serverId THEN clients
    ELSE Append(clients, serverId)

\* !mcpServerManager.isServerRunning(serverId)
NotRunningNever(mgr, serverId) == FALSE

NotRunning(mgr, serverId) == serverId \notin mgr.live

\* executeMcpCommand from the isServerRunning check on
CommandBody(mgr, c) ==
    IF NotRunning(mgr, c.serverId)
    THEN [c EXCEPT !.pc = "done", !.outcome = "not running", !.handed = FALSE]
    ELSE IF bootImpl = "executor"
    THEN [c EXCEPT !.pc = "done", !.outcome = "done", !.handed = FALSE]
    ELSE IF c.command = "tools/list"
    THEN [c EXCEPT !.pc = "done", !.outcome = "listed", !.handed = TRUE]
    ELSE IF c.command = "tools/call"
    THEN IF c.confirm
         THEN [c EXCEPT !.pc = "done", !.outcome = "called", !.handed = TRUE]
         ELSE [c EXCEPT !.pc = "done", !.outcome = "cancelled", !.handed = FALSE]
    ELSE [c EXCEPT !.pc = "done", !.outcome = "unknown", !.handed = FALSE]

InitBoot ==
    /\ bootImpl \in {"index", "executor"}
    /\ mcpServerManager = NoManager
    /\ sdkMcpClients = <<>>
    /\ boot = NoBoot
    /\ mcpCmd = NoCmd

\* no initializeMcpServers call is under way
BootIdle == boot.pc \in {"idle", "done"}

\* initializeMcpServers()
InitializeMcpServers(configs, throws) ==
    /\ BootIdle
    /\ mcpCmd.pc # "waiting"
    /\ LET r == BeginBoot(mcpServerManager, configs, throws) IN
       /\ mcpServerManager' = r.mgr
       /\ boot' = r.boot
    /\ UNCHANGED <<bootImpl, sdkMcpClients, mcpCmd>>
    /\ UNCHANGED othersBoot

\* the promise of the startServer call of the i-th configuration settles;
\* a rejection comes with the 'error' or 'close' handler that untracks the id
StartSettles(i, ok) ==
    /\ boot.pc = "starting"
    /\ i \in 1..Len(boot.results)
    /\ boot.results[i] = "pending"
    /\ boot' = [boot EXCEPT !.results[i] = IF ok THEN "ok" ELSE "fail"]
    /\ mcpServerManager' =
           IF ok THEN mcpServerManager
           ELSE [mcpServerManager EXCEPT !.live = @ \ {boot.configs[i]},
                                         !.died = @ \cup {boot.configs[i]}]
    /\ UNCHANGED <<bootImpl, sdkMcpClients, mcpCmd>>
    /\ UNCHANGED othersBoot

\* await Promise.all(startPromises) resumes: mcp-executor.ts returns the
\* successful ids, index.ts clears sdkMcpClients and connects the first
StartsDone ==
    /\ boot.pc = "starting"
    /\ \A i \in 1..Len(boot.results) : boot.results[i] # "pending"
    /\ LET successful == Successful(boot.configs, boot.results) IN
       IF bootImpl = "executor"
       THEN /\ boot' = [boot EXCEPT !.pc = "done", !.successful = successful,
                                    !.returned = successful]
            /\ UNCHANGED sdkMcpClients
       ELSE /\ sdkMcpClients' = <<>>
            /\ boot' = IF successful = <<>>
                       THEN [boot EXCEPT !.pc = "done"]
                       ELSE [boot EXCEPT !.pc = "connecting",
                                         !.successful = successful, !.k = 1]
    /\ UNCHANGED <<bootImpl, mcpServerManager, mcpCmd>>
    /\ UNCHANGED othersBoot

\* await client.connect(transport) settles for the k-th successful server;
\* after the last one the keys of sdkMcpClients are returned
ConnectSettles(ok) ==
    /\ boot.pc = "connecting"
    /\ LET clients == IF ok THEN ClientsSet(sdkMcpClients, boot.successful[boot.k])
                      ELSE sdkMcpClients
       IN /\ sdkMcpClients' = clients
          /\ boot' = IF boot.k < Len(boot.successful)
                     THEN [boot EXCEPT !.k = @ + 1]
                     ELSE [boot EXCEPT !.pc = "done", !.returned = clients]
    /\ UNCHANGED <<bootImpl, mcpServerManager, mcpCmd>>
    /\ UNCHANGED othersBoot

\* the process of a tracked server exits: its handler untracks the id
ServerDies(id) ==
    /\ id \in mcpServerManager.live
    /\ mcpServerManager' = [mcpServerManager EXCEPT !.live = @ \ {id},
                                                    !.died = @ \cup {id}]
    /\ UNCHANGED <<bootImpl, sdkMcpClients, boot, mcpCmd>>
    /\ UNCHANGED othersBoot

\* executeMcpCommand(serverId, command): without a manager it creates one
\* and awaits initializeMcpServers, else it goes on to the check
ExecuteMcpCommand(serverId, command, confirm, configs, throws) ==
    /\ BootIdle
    /\ mcpCmd.pc # "waiting"
    /\ LET c == [NoCmd EXCEPT !.serverId = serverId, !.command = command,
                              !.confirm = confirm]
       IN IF mcpServerManager.set
          THEN /\ mcpCmd' = CommandBody(mcpServerManager, c)
               /\ UNCHANGED <<mcpServerManager, boot>>
          ELSE LET r == BeginBoot(mcpServerManager, configs, throws) IN
               /\ mcpServerManager' = r.mgr
               /\ boot' = r.boot
               /\ mcpCmd' = [c EXCEPT !.pc = "waiting"]
    /\ UNCHANGED <<bootImpl, sdkMcpClients>>
    /\ UNCHANGED othersBoot

\* await initializeMcpServers() resumes in executeMcpCommand
ExecuteMcpCommandResume ==
    /\ mcpCmd.pc = "waiting"
    /\ boot.pc = "done"
    /\ mcpCmd' = CommandBody(mcpServerManager, mcpCmd)
    /\ UNCHANGED <<bootImpl, mcpServerManager, sdkMcpClients, boot>>
    /\ UNCHANGED othersBoot

NextBoot ==
    \/ \E configs \in BootConfigs, throws \in [ServerIds -> BOOLEAN] :
           InitializeMcpServers(configs, throws)
    \/ \E i \in 1..2, ok \in BOOLEAN : StartSettles(i, ok)
    \/ StartsDone
    \/ \E ok \in BOOLEAN : ConnectSettles(ok)
    \/ \E id \in ServerIds : ServerDies(id)
    \/ \E serverId \in ServerIds, command \in Commands, confirm \in BOOLEAN :
           IF mcpServerManager.set
           THEN ExecuteMcpCommand(serverId, command, confirm, <<>>,
                                  [id \in ServerIds |-> FALSE])
           ELSE \E configs \in BootConfigs, throws \in [ServerIds -> BOOLEAN] :
                    ExecuteMcpCommand(serverId, command, confirm, configs, throws)
    \/ ExecuteMcpCommandResume

----------------------------------------------------------------------------
(* MCPMultiClient when calls on it overlap.  initialize, callTool and       *)
(* getAllTools are async: each runs until it awaits client.listTools or     *)
(* this.initialize, and another call may begin or go on before it resumes.  *)

MaxTasks == 2     \* calls begun on one MCPMultiClient

McOps == {"initialize", "callTool", "getAllTools"}

NoTask == [op |-> "none", pc |-> "idle", k |-> 0, hit |-> FALSE, tools |-> {}]

NotAsked == [n |-> 0, tools |-> {}]

\* initialize called client.listTools once more
Asked(asked, serverId) == [asked EXCEPT ![serverId].n = @ + 1]

\* client.listTools() returned these tools to initialize
Returned(asked, serverId, tools) == [asked EXCEPT ![serverId].tools = @ \cup tools]

\* the flag once the loop of initialize has ended: this.initialized = true
InitializedAtEnd(before) == TRUE

\* where a call stands when its initialize has returned
AfterInitialize(task) ==
    [task EXCEPT !.pc = IF task.op = "initialize" THEN "done" ELSE "inited",
                 !.k = 0, !.hit = FALSE, !.tools = {}]

\* a loop over this.clients.entries() comes to its k-th entry and calls
\* client.listTools(): the cache is looked at now, the answer comes later
AwaitList(task, phase, k, clients) ==
    [task EXCEPT !.pc = phase, !.k = k,
                 !.hit = CacheHit(TRUE, clients[k][2].toolCache),
                 !.tools = IF CacheHit(TRUE, clients[k][2].toolCache)
                           THEN clients[k][2].toolCache.tools ELSE {}]

\* the loop of initialize or of getAllTools comes to the k-th entry of the
\* Map, or to its end
LoopAt(t, task, phase, k, clients) ==
    IF k <= Len(clients)
    THEN /\ mcTasks' = [mcTasks EXCEPT ![t] = AwaitList(task, phase, k, clients)]
         /\ UNCHANGED mcInitialized
    ELSE IF phase = "init"
    THEN /\ mcTasks' = [mcTasks EXCEPT ![t] = AfterInitialize(task)]
         /\ mcInitialized' = InitializedAtEnd(mcInitialized)
    ELSE /\ mcTasks' = [mcTasks EXCEPT ![t] = [NoTask EXCEPT !.op = task.op, !.pc = "done"]]
         /\ UNCHANGED mcInitialized

\* what the awaited client.listTools() comes to
ListSettled(task, client, answer) ==
    IF task.hit THEN [toolCache |-> client.toolCache, tools |-> task.tools]
    ELSE [toolCache |-> listTools(client, FALSE, answer).toolCache,
          tools |-> listTools(client, FALSE, answer).tools]

InitMc ==
    /\ mcClients = <<>>
    /\ mcToolServerMap = [t \in RegTools |-> <<>>]
    /\ mcInitialized = FALSE
    /\ mcTasks = [t \in 1..MaxTasks |-> NoTask]
    /\ mcAsked = [s \in RegServers |-> NotAsked]

\* multiClient.addClient(serverId, new MCPClient({ serverId }))
McAddClient(serverId) ==
    /\ ~MapHas(mcClients, serverId)
    /\ mcClients' = MapSet(mcClients, serverId, NewClient(serverId))
    /\ UNCHANGED <<mcToolServerMap, mcInitialized, mcTasks, mcAsked>>
    /\ UNCHANGED othersMc

\* multiClient.initialize(), callTool(...) or getAllTools() is called: it
\* runs until the first await
McBegin(t, op) ==
    /\ mcTasks[t].pc = "idle"
    /\ \A u \in 1..(t - 1) : mcTasks[u].pc # "idle"
    /\ IF mcInitialized
       THEN /\ mcTasks' = [mcTasks EXCEPT ![t] = AfterInitialize([NoTask EXCEPT !.op = op])]
            /\ UNCHANGED <<mcInitialized, mcAsked>>
       ELSE /\ LoopAt(t, [NoTask EXCEPT !.op = op], "init", 1, mcClients)
            /\ mcAsked' = IF Len(mcClients) > 0 THEN Asked(mcAsked, mcClients[1][1])
                          ELSE mcAsked
    /\ UNCHANGED <<mcClients, mcToolServerMap>>
    /\ UNCHANGED othersMc

\* the client.listTools() a loop awaits settles: initialize enters the tools
\* under the server id, and the loop goes on to the next entry
McListSettles(t, answer) ==
    /\ mcTasks[t].pc \in {"init", "all"}
    /\ mcTasks[t].hit => answer = NoListAnswer
    /\ LET task     == mcTasks[t]
           serverId == mcClients[task.k][1]
           l        == ListSettled(task, mcClients[task.k][2], answer)
           clients2 == WithCache(mcClients, serverId, l.toolCache)
       IN /\ mcClients' = clients2
          /\ mcToolServerMap' = IF task.pc = "init"
                                THEN AddTools(mcToolServerMap, l.tools, serverId)
                                ELSE mcToolServerMap
          /\ LoopAt(t, task, task.pc, task.k + 1, clients2)
          /\ mcAsked' = IF task.pc # "init" THEN mcAsked
                        ELSE IF task.k + 1 <= Len(clients2)
                        THEN Asked(Returned(mcAsked, serverId, l.tools),
                                   clients2[task.k + 1][1])
                        ELSE Returned(mcAsked, serverId, l.tools)
    /\ UNCHANGED othersMc

\* getAllTools goes on after await this.initialize(): its own loop over
\* this.clients.entries()
McGetAllToolsResume(t) ==
    /\ mcTasks[t].pc = "inited"
    /\ mcTasks[t].op = "getAllTools"
    /\ LoopAt(t, mcTasks[t], "all", 1, mcClients)
    /\ UNCHANGED <<mcClients, mcToolServerMap, mcAsked>>
    /\ UNCHANGED othersMc

\* callTool goes on after await this.initialize(): the owners of the tool
\* are looked up and tried in order
McCallToolResume(t, toolName, answers, calls) ==
    /\ mcTasks[t].pc = "inited"
    /\ mcTasks[t].op = "callTool"
    /\ mcClients' = callTool(mcClients, mcToolServerMap, toolName, answers, calls).clients
    /\ mcTasks' = [mcTasks EXCEPT ![t] = [NoTask EXCEPT !.op = "callTool", !.pc = "done"]]
    /\ UNCHANGED <<mcToolServerMap, mcInitialized, mcAsked>>
    /\ UNCHANGED othersMc

NextMc ==
    \/ \E serverId \in RegServers : McAddClient(serverId)
    \/ \E t \in 1..MaxTasks, op \in McOps : McBegin(t, op)
    \/ \E t \in 1..MaxTasks, answer \in ListAnswers : McListSettles(t, answer)
    \/ \E t \in 1..MaxTasks : McGetAllToolsResume(t)
    \/ \E t \in 1..MaxTasks, toolName \in RegTools,
          answers \in [RegServers -> ListAnswers],
          calls \in [RegServers -> CallAnswers] :
           McCallToolResume(t, toolName, answers, calls)

----------------------------------------------------------------------------
(* One turn of startChat (index.ts) and the executeToolCalls it ends with.  *)
(* Tool names are characters here, as the model and the extractor give them;*)
(* findServerForTool is handed the name split at its dots.                  *)

MaxParts == 2     \* parts of one streamed response

\* tool_calls entries a part of the stream may carry; the arguments of the
\* third are no JSON text
StreamToolCalls ==
    << [id |-> 1, function |-> [name |-> <<"l", "s">>, arguments |-> <<"{", "}">>]],
       [id |-> 2, function |-> [name |-> <<"b", ".", "l", "s">>, arguments |-> <<"{", "}">>]],
       [id |-> 3, function |-> [name |-> <<"l", "s">>, arguments |-> <<"{", "p">>]] >>

\* part.message.content: plain text, or a tools/call directive for a.ls
StreamContents ==
    {<<>>, <<"o", "k">>,
     FormatDirective([tool |-> <<"a", ".", "l", "s">>, args |-> OObj(<<>>)])}

StreamParts ==
    [content : StreamContents,
     tool_calls : {<<>>, <<StreamToolCalls[1]>>, <<StreamToolCalls[3]>>,
                   <<StreamToolCalls[1], StreamToolCalls[2]>>}]

Streams == UNION {[1..n -> StreamParts] : n \in 1..MaxParts}

\* client.listTools() of an SDK client in this turn
ChatAnswers ==
    [kind : {"throw"}, tools : {{}}] \cup [kind : {"tools"}, tools : SUBSET {<<"ls">>}]

\* responseContent += content, over the parts from the k-th on
RECURSIVE ResponseContent(_, _)
ResponseContent(stream, k) ==
    IF k > Len(stream) THEN <<>>
    ELSE stream[k].content \o ResponseContent(stream, k + 1)

\* responseTool_calls.some(tc => tc.id === toolCall.id)
HasId(collected, toolCall) ==
    \E i \in 1..Len(collected) : collected[i].id = toolCall.id

\* the inner loop over part.message.tool_calls
RECURSIVE CollectPart(_, _, _)
CollectPart(toolCalls, i, collected) ==
    IF i > Len(toolCalls) THEN collected
    ELSE CollectPart(toolCalls, i + 1,
                     IF HasId(collected, toolCalls[i]) THEN collected
                     ELSE Append(collected, toolCalls[i]))

\* responseTool_calls after the parts from the k-th on
RECURSIVE Collect(_, _, _)
Collect(stream, k, collected) ==
    IF k > Len(stream) THEN collected
    ELSE Collect(stream, k + 1, CollectPart(stream[k].tool_calls, 1, collected))

\* responseTool_calls.map(tc => { tool, args: JSON.parse(...) } or null)
\* .filter(tc => tc !== null)
ConvertedOne(toolCall, parsed) ==
    IF parsed.ok THEN <<[tool |-> toolCall.function.name, args |-> parsed.v]>>
    ELSE <<>>

RECURSIVE Converted(_, _)
Converted(toolCalls, i) ==
    IF i > Len(toolCalls) THEN <<>>
    ELSE ConvertedOne(toolCalls[i], JsonParse(toolCalls[i].function.arguments))
         \o Converted(toolCalls, i + 1)

\* the calls extractToolCalls found, as { tool, args }
ExtractedFrom(calls) ==
    [i \in 1..Len(calls) |-> [tool |-> calls[i].tool, args |-> calls[i].args]]

Extracted(content) == ExtractedFrom(extractToolCalls(content))

\* responseTool_calls.length > 0
StructuredNever(responseTool_calls) == FALSE

Structured(responseTool_calls) == Len(responseTool_calls) > 0

\* the branch of startChat on the structured list: the calls to execute, and
\* whether extractToolCalls ran
CallsOf(responseContent, responseTool_calls) ==
    IF Structured(responseTool_calls)
    THEN [toolCalls |-> Converted(responseTool_calls, 1), extracted |-> FALSE]
    ELSE [toolCalls |-> Extracted(responseContent), extracted |-> TRUE]

\* the characters of an id or a tool name as the string the SDK clients use
Word(chars) ==
    CASE chars = <<"a">> -> "a"
      [] chars = <<"b">> -> "b"
      [] chars = <<"l", "s">> -> "ls"
      [] OTHER -> "?"

\* toolName.split('.'), for a name with at most one dot
SplitName(tool) ==
    IF DotIndex(tool, 1) = 0 THEN <<Word(tool)>>
    ELSE <<Word(SubSeq(tool, 1, DotIndex(tool, 1) - 1)),
           Word(SubSeq(tool, DotIndex(tool, 1) + 1, Len(tool)))>>

\* what one pass of the loop of executeToolCalls sends: the requests of
\* findServerForTool and, when it found a server, the call
Sent(call, found) ==
    found.sent
    \o (IF found.server = "" THEN <<>>
        ELSE <<[server |-> found.server, method |-> "tools/call", tool |-> call.tool]>>)

\* !executeTools
DeclinedNever(executeTools) == FALSE

Declined(executeTools) == ~executeTools

NoChat == [pc |-> "idle", responseContent |-> <<>>, responseTool_calls |-> <<>>,
           extracted |-> FALSE, toolCalls |-> <<>>, clients |-> <<>>,
           asked |-> FALSE, executeTools |-> FALSE, k |-> 0]

\* the turn once the calls are known: executeToolCalls returns at once when
\* there is none
Turn(calls, responseContent, responseTool_calls, clients) ==
    [NoChat EXCEPT !.responseContent = responseContent,
                   !.responseTool_calls = responseTool_calls,
                   !.extracted = calls.extracted,
                   !.toolCalls = calls.toolCalls,
                   !.clients = clients,
                   !.pc = IF Len(calls.toolCalls) > 0 THEN "prompt" ELSE "done"]

Streamed(responseContent, responseTool_calls, clients) ==
    Turn(CallsOf(responseContent, responseTool_calls), responseContent,
         responseTool_calls, clients)

InitChat ==
    /\ chat = NoChat
    /\ chatSent = <<>>

\* a turn of startChat: the response is streamed, the calls are taken from
\* the structured list or from the text, and executeToolCalls runs up to its
\* prompt when there is a call
StartChatTurn(stream, clients) ==
    /\ chat.pc = "idle"
    /\ chat' = Streamed(ResponseContent(stream, 1), Collect(stream, 1, <<>>), clients)
    /\ chatSent' = <<>>
    /\ UNCHANGED othersChat

\* the user answers the prompt of executeToolCalls
ConfirmTools(executeTools) ==
    /\ chat.pc = "prompt"
    /\ chat' = [chat EXCEPT !.asked = TRUE, !.executeTools = executeTools,
                            !.k = 1,
                            !.pc = IF Declined(executeTools) THEN "done" ELSE "run"]
    /\ UNCHANGED chatSent
    /\ UNCHANGED othersChat

\* one pass of the loop of executeToolCalls: the server is looked for and,
\* when there is one, the call is handed to callTool
ExecuteToolCall(answers) ==
    /\ chat.pc = "run"
    /\ chatSent' = chatSent \o Sent(chat.toolCalls[chat.k],
                                     findServerForTool(chat.clients,
                                         SplitName(chat.toolCalls[chat.k].tool),
                                         answers))
    /\ chat' = [chat EXCEPT !.k = @ + 1,
                            !.pc = IF chat.k < Len(chat.toolCalls) THEN "run" ELSE "done"]
    /\ UNCHANGED othersChat

\* the turn is over: the loop of startChat waits for the next input
AwaitInput ==
    /\ chat.pc = "done"
    /\ chat' = NoChat
    /\ chatSent' = <<>>
    /\ UNCHANGED othersChat

NextChat ==
    \/ AwaitInput
    \/ \E stream \in Streams, clients \in ClientOrders : StartChatTurn(stream, clients)
    \/ \E executeTools \in BOOLEAN : ConfirmTools(executeTools)
    \/ \E answers \in [RegServers -> ChatAnswers] : ExecuteToolCall(answers)

----------------------------------------------------------------------------
(* shutdownMcpServers: the clients are asked to shut down, then the manager *)
(* stops the server processes.                                              *)

\* how client.request({ method: "shutdown" }) may end: the server answers,
\* the server rejects the method, the transport fails
ShutdownOutcomes == {"ok", "rejected", "failed"}

NoTeardown == [pc |-> "idle", k |-> 0, outcomes |-> <<>>, stopFailed |-> FALSE,
               raised |-> FALSE]

ShutdownEvent(serverId) == [e |-> "shutdown", id |-> serverId]

StopEvent(serverId) == [e |-> "stop", id |-> serverId]

\* does the outcome of a shutdown request leave the loop over the clients:
\* the inner try/catch swallows every error
BreaksOnError(outcome) == outcome # "ok"

Breaks(outcome) == FALSE

\* does a rejection of stopAllServers leave shutdownMcpServers: the outer
\* catch logs it
StopEscapes(fails) == FALSE

\* the ids of a set in the order of ServerOrder
RECURSIVE StopEvents(_, _)
StopEvents(order, live) ==
    IF order = <<>> THEN <<>>
    ELSE (IF Head(order) \in live THEN <<StopEvent(Head(order))>> ELSE <<>>)
         \o StopEvents(Tail(order), live)

\* the loop over sdkMcpClients.entries() comes to its k-th entry, or to
\* await mcpServerManager.stopAllServers()
AskAt(td, k, clients) ==
    [td EXCEPT !.pc = IF k <= Len(clients) THEN "ask" ELSE "stop", !.k = k]

InitTd ==
    /\ tdManager = FALSE
    /\ tdClients = <<>>
    /\ tdLive = {}
    /\ teardown = NoTeardown
    /\ tdLog = <<>>

\* initializeMcpServers has run: the manager exists, some servers run and
\* some clients are connected
TdInitialized(clients, live) ==
    /\ teardown.pc = "idle"
    /\ ~tdManager
    /\ tdManager' = TRUE
    /\ tdClients' = clients
    /\ tdLive' = live
    /\ UNCHANGED <<teardown, tdLog>>
    /\ UNCHANGED othersTd

\* a server process exits on its own: its handlers remove it
TdServerDies(id) ==
    /\ id \in tdLive
    /\ tdLive' = tdLive \ {id}
    /\ UNCHANGED <<tdManager, tdClients, teardown, tdLog>>
    /\ UNCHANGED othersTd

\* shutdownMcpServers() up to its first await
ShutdownMcpServers ==
    /\ teardown.pc = "idle"
    /\ IF ~tdManager
       THEN /\ teardown' = [NoTeardown EXCEPT !.pc = "done"]
            /\ tdLog' = <<>>
       ELSE /\ teardown' = AskAt(NoTeardown, 1, tdClients)
            /\ tdLog' = IF Len(tdClients) > 0 THEN <<ShutdownEvent(tdClients[1])>>
                        ELSE <<>>
    /\ UNCHANGED <<tdManager, tdClients, tdLive>>
    /\ UNCHANGED othersTd

\* the shutdown request of the k-th client settles
ShutdownSettles(outcome) ==
    /\ teardown.pc = "ask"
    /\ IF Breaks(outcome)
       THEN /\ teardown' = [teardown EXCEPT !.pc = "done",
                                            !.outcomes = Append(@, outcome)]
            /\ UNCHANGED tdLog
       ELSE /\ teardown' = AskAt([teardown EXCEPT !.outcomes = Append(@, outcome)],
                                 teardown.k + 1, tdClients)
            /\ tdLog' = IF teardown.k + 1 <= Len(tdClients)
                        THEN Append(tdLog, ShutdownEvent(tdClients[teardown.k + 1]))
                        ELSE tdLog
    /\ UNCHANGED <<tdManager, tdClients, tdLive>>
    /\ UNCHANGED othersTd

\* await mcpServerManager.stopAllServers(): every tracked server is stopped,
\* or the call rejects and the outer catch reports it
StopAllServers(fails) ==
    /\ teardown.pc = "stop"
    /\ teardown' = [teardown EXCEPT !.pc = "done", !.stopFailed = fails,
                                    !.raised = StopEscapes(fails)]
    /\ tdLive' = IF fails THEN tdLive ELSE {}
    /\ tdLog' = IF fails THEN tdLog ELSE tdLog \o StopEvents(<<"a", "b">>, tdLive)
    /\ UNCHANGED <<tdManager, tdClients>>
    /\ UNCHANGED othersTd

NextTd ==
    \/ \E clients \in ClientOrders, live \in SUBSET RegServers :
           TdInitialized(clients, live)
    \/ \E id \in RegServers : TdServerDies(id)
    \/ ShutdownMcpServers
    \/ \E outcome \in ShutdownOutcomes : ShutdownSettles(outcome)
    \/ \E fails \in BOOLEAN : StopAllServers(fails)

----------------------------------------------------------------------------
(* Specifications *)

Init ==
    InitSup /\ InitEx /\ InitRt /\ InitReg /\ InitFind /\ InitCfg /\ InitBoot
    /\ InitMc /\ InitChat /\ InitTd

SpecSup == Init /\ [][NextSup]_vars

SpecExtract == Init /\ [][NextEx]_vars

SpecRT == Init /\ [][NextRt]_vars

SpecReg == Init /\ [][NextReg]_vars

SpecFind == Init /\ [][NextFind]_vars

SpecCfg == Init /\ [][NextCfg]_vars

SpecBoot == Init /\ [][NextBoot]_vars

SpecMc == Init /\ [][NextMc]_vars

SpecChat == Init /\ [][NextChat]_vars

SpecTd == Init /\ [][NextTd]_vars

----------------------------------------------------------------------------
(* Claims about the supervisor *)

\* the map of the manager that was constructed
Tracked == IF impl = "ts" THEN serverProcesses ELSE servers

\* C1: after two or more consecutive startServer calls for an id, with no
\* stop and no exit of a process of that id since, the supervisor tracks
\* exactly one handle for the id.
C1_OneHandleAfterTwoStarts ==
    \A id \in ServerIds : startCalls[id] >= 2 => Handles(Tracked, id) = 1

C1_Witness ==
    \E id \in ServerIds :
        /\ startCalls[id] >= 2
        /\ Handles(Tracked, id) = 1
        /\ \A p \in Pids : procs[p].alive

\* C2: across startServer calls for one id with no stop and no process exit
\* in between, at most one process is spawned for the id.
C2_AtMostOneSpawn ==
    \A id \in ServerIds : spawnCount[id] <= 1

\* the same statement for the ollama-bridge.ts manager alone
C2_BridgeAtMostOneSpawn ==
    impl = "bridge" => \A id \in ServerIds : spawnCount[id] <= 1

\* the process of id p exits or fails in this step
Exits(p) == procs[p].alive /\ ~procs'[p].alive

\* the start promise of process p settles in this step
Settles(p, outcome) == procs[p].startP = "pending" /\ procs'[p].startP = outcome

\* C24: stopServer sends SIGTERM and no SIGKILL with it; when the grace
\* timer of the stop fires and the stopped process is still tracked and
\* alive, SIGKILL is sent to it; SIGKILL is sent to no process that exited.
C24_ForcefulKillAfterGrace ==
    [][/\ \A p \in Pids :
              /\ (~procs[p].sigterm /\ procs'[p].sigterm) => ~procs'[p].sigkill
              /\ (~procs[p].sigkill /\ procs'[p].sigkill) => procs[p].alive
       /\ \A id \in ServerIds :
              (/\ id \in stopTimers
               /\ id \notin stopTimers'
               /\ MapHas(Tracked, id)
               /\ procs[MapGet(Tracked, id)].sigterm
               /\ procs[MapGet(Tracked, id)].alive)
                  => procs'[MapGet(Tracked, id)].sigkill]_vars

\* C25: stopAllServers returns with no stopServer call of its loop left to
\* make or to wait for, and when no startServer ran while it was under way
\* no server tracked at the call is tracked at the return.
C25_StopAllSettles ==
    [][(stopAll' # stopAll /\ stopAll'.pc = "returned")
           => /\ stopAll'.ids = <<>>
              /\ stopAll'.waiting = ""
              /\ ~stopAll'.started
                     => \A id \in stopAll'.tracked : ~MapHas(Tracked', id)]_vars

C25_Witness ==
    /\ impl = "ts"
    /\ stopAll.pc = "returned"
    /\ stopAll.tracked = ServerIds
    /\ ~stopAll.started
    /\ serverProcesses = <<>>
    /\ \E p \in Pids : procs[p].sigterm /\ procs[p].alive

\* C26: a start promise that has settled keeps its outcome; it resolves
\* only for a process that gave output or has not exited, it is rejected
\* only by the error or exit of the process, and when it resolves for a
\* process without output that was not stopped the server is tracked.
C26_FirstEventDecidesStart ==
    [][\A p \in Pids :
           /\ procs[p].startP # "pending" => procs'[p].startP = procs[p].startP
           /\ Settles(p, "resolved") => procs'[p].output \/ procs[p].alive
           /\ Settles(p, "rejected") => ~procs'[p].alive
           /\ (/\ Settles(p, "resolved")
               /\ ~procs'[p].output
               /\ procs[p].alive
               /\ ~procs[p].sigterm)
                  => MapHas(Tracked', procs[p].id)]_vars

\* C27: the exit of a process that gave no output, while its start promise
\* is pending, rejects the promise whatever the exit code; a start promise
\* resolves only while its server is tracked.
C27_EarlyExitFailsStart ==
    [][\A p \in Pids :
           /\ (Exits(p) /\ ~procs[p].output /\ procs[p].startP = "pending")
                  => procs'[p].startP = "rejected"
           /\ Settles(p, "resolved") => MapHas(Tracked', procs[p].id)]_vars

\* C28: the exit or error of a process removes the entry of its id from
\* the manager's map, and an id enters the map only by a startServer that
\* spawns a process for it.
C28_ExitRemovesHandle ==
    [][/\ \A p \in Pids : Exits(p) => ~MapHas(Tracked', procs[p].id)
       /\ \A id \in ServerIds :
              (~MapHas(Tracked, id) /\ MapHas(Tracked', id))
                  => /\ Len(procs') = Len(procs) + 1
                     /\ procs'[Len(procs')].id = id]_vars

C28_Witness ==
    \E p \in Pids :
        /\ ~procs[p].alive
        /\ ~procs[p].sigterm
        /\ procs[p].output
        /\ procs[p].startP = "resolved"
        /\ ~MapHas(Tracked, procs[p].id)

\* the process tracked for an id, 0 when there is none
HandleOf(m, id) == IF MapHas(m, id) THEN MapGet(m, id) ELSE 0

\* a step of startServer(A) or stopServer(A), or an event of a process of A
AboutServer(A) ==
    \/ BrStartServerTracked(A) \/ BrStartServerSpawn(A) \/ BrStopServer(A)
    \/ TsStartServer(A) \/ TsStopServerAbsent(A) \/ TsStopServer(A)
    \/ TsStopPoll(A) \/ TsStopTimeout(A)
    \/ \E p \in Pids :
           /\ procs[p].id = A
           /\ \/ BrProcOutput(p) \/ BrProcError(p) \/ BrStartTimeout(p)
              \/ \E code \in CloseCodes : BrProcClose(p, code)
              \/ TsProcOutput(p) \/ TsProcError(p) \/ TsProcClose(p)
              \/ TsStartTimer(p)

\* C37: a step of starting or stopping server A, or an event of a process of
\* A, leaves the tracked handle of every other server B as it was: none is
\* added, removed or replaced, however the steps of the servers interleave.
C37_OtherServersUntouched ==
    [][\A A \in ServerIds :
           AboutServer(A)
               => \A B \in ServerIds \ {A} :
                      HandleOf(Tracked', B) = HandleOf(Tracked, B)]_vars

C37_Witness ==
    \E p, q \in Pids :
        /\ procs[p].id # procs[q].id
        /\ ~procs[p].alive
        /\ procs[p].startP = "rejected"
        /\ ~MapHas(Tracked, procs[p].id)
        /\ procs[q].alive
        /\ procs[q].startP = "resolved"
        /\ HandleOf(Tracked, procs[q].id) = q

\* C38: the exit of a process does not remove the handle of another process
\* tracked under the same id: when an id was stopped or started again and a
\* new, live process is tracked for it, that process stays tracked when the
\* old one exits.
C38_OldExitKeepsNewHandle ==
    [][\A p \in Pids :
           (/\ Exits(p)
            /\ HandleOf(Tracked, procs[p].id) \notin {0, p}
            /\ procs[HandleOf(Tracked, procs[p].id)].alive)
               => HandleOf(Tracked', procs[p].id) = HandleOf(Tracked, procs[p].id)]_vars

----------------------------------------------------------------------------
(* Claims about the extractor *)

Qualified(req) == DotIndex(req.tool, 1) # 0

\* C8: a text that is one qualified directive tools/call <server> <tool>
\* <json> yields exactly one request, and it is named <server>.<tool>.
C8_OneQualifiedRequest ==
    (exPc = "done" /\ exReq # NoRequest /\ Qualified(exReq))
        => /\ Len(exCalls) = 1
           /\ exCalls[1].tool = exReq.tool

\* C9: formatting a request as a tools/call directive and extracting from it
\* returns exactly one request, with the same tool name and a deep-equal
\* argument mapping.
C9_RoundTrip ==
    (exPc = "done" /\ exReq # NoRequest)
        => /\ Len(exCalls) = 1
           /\ exCalls[1].tool = exReq.tool
           /\ exCalls[1].args = ToValue(exReq.args)

\* C10: the returned requests are in the order in which their directives
\* first occur in the text.
C10_FirstOccurrenceOrder ==
    exPc = "done"
        => \A i, j \in 1..Len(exCalls) :
               i < j => exCalls[i].at < exCalls[j].at

\* C11: a directive whose JSON does not parse is dropped without an error,
\* and every well-formed directive of the text is still returned: wherever
\* the directive of a request stands in the text, that request is among the
\* results.
C11_WellFormedDirectivesKept ==
    exPc = "done"
        => \A r \in Requests, p \in 1..Len(exText) :
               HasAt(exText, p, FormatDirective(r))
                   => \E k \in 1..Len(exCalls) :
                          /\ exCalls[k].at = p
                          /\ exCalls[k].tool = r.tool
                          /\ exCalls[k].args = ToValue(r.args)

\* the text holds the characters tools/call somewhere
MentionsToolsCall(text) ==
    \E p \in 1..Len(text) :
        /\ p + 9 <= Len(text)
        /\ SubSeq(text, p, p + 9) = <<"t", "o", "o", "l", "s", "/", "c", "a", "l", "l">>

\* C12: for a text without any tool-call directive (the empty string, prose,
\* unrelated JSON) extractToolCalls returns the empty sequence.
C12_NoDirectiveNoRequest ==
    (exPc = "done" /\ ~MentionsToolsCall(exText)) => exCalls = <<>>

C12_Witness ==
    /\ exPc = "done"
    /\ exText = <<"o", "k", " ", "s", "o", " ", "{", "\"", "a", "\"", ":", "1", "}">>
    /\ exCalls = <<>>

\* C13: no scan state left behind by an earlier match test changes which
\* matches are returned: of two copies of the same fragment in one text,
\* either both yield a request or neither does.
C13_NoCarriedScanState ==
    exPc = "done"
        => \A k \in FragKinds :
               exText = Frag(k) \o Frag(k)
                   => ((\E c \in 1..Len(exCalls) : exCalls[c].at <= Len(Frag(k)))
                        <=> (\E c \in 1..Len(exCalls) : exCalls[c].at > Len(Frag(k))))

----------------------------------------------------------------------------
(* Claims about the tool round trip *)

\* the number of tool calls the first reply asked for
Requested ==
    IF Len(rtReplies) >= 1 /\ rtReplies[1].has_tool_calls
    THEN Len(rtReplies[1].tool_calls) ELSE 0

ModelCalls == {k \in 1..Len(rtTrace) : rtTrace[k].e = "model"}

Executions == {k \in 1..Len(rtTrace) : rtTrace[k].e = "start"}

\* model call, then each tool call begun and ended in turn, then model call
SequentialTrace(n) ==
    <<ModelEvent>>
    \o [k \in 1..(2 * n) |-> IF k % 2 = 1 THEN [e |-> "start", i |-> (k + 1) \div 2]
                             ELSE EndEvent(k \div 2)]
    \o <<ModelEvent>>

IsSuffix(t, c) == Len(t) <= Len(c) /\ SubSeq(c, Len(c) - Len(t) + 1, Len(c)) = t

C4_NoToolCallsOneModelCall ==
    (rtPc \in {"tools", "second", "done"} /\ Requested = 0)
        => /\ rtPc = "done"
           /\ rtTrace = <<ModelEvent>>
           /\ Len(rtReplies) = 1
           /\ rtResult.content = rtReplies[1].content
           /\ rtResult.tool_calls = rtReplies[1].tool_calls

C4_Witness ==
    /\ rtPc = "done"
    /\ Len(rtReplies) = 1
    /\ rtReplies[1].has_tool_calls
    /\ rtReplies[1].tool_calls = <<>>
    /\ rtResult.content = <<"a1">>
    /\ rtTrace = <<ModelEvent>>

C7_ModelErrorPropagates ==
    rtPc = "failed"
        => /\ rtError = rtModelErr
           /\ Len(rtReplies) = 0 => (Executions = {} /\ rtOutcomes = <<>>)

C7_Witness ==
    /\ rtPc = "failed"
    /\ Len(rtReplies) = 1
    /\ Requested >= 1
    /\ rtError = "model not found"

----------------------------------------------------------------------------
(* Claims about the tool registry *)

\* the positions of the clients whose server listed the name when asked
Declaring(call) ==
    {i \in 1..Len(call.clients) :
        /\ call.answers[call.clients[i]].kind = "tools"
        /\ call.toolName \in call.answers[call.clients[i]].tools}

\* C14: an unqualified name resolves to the first server, in the insertion
\* order of the clients, that declares it; with two servers declaring the
\* name that is the one inserted first.
C14_FirstDeclaringServer ==
    (findCall.done /\ Len(findCall.toolName) = 1)
        => IF Declaring(findCall) = {} THEN findCall.server = ""
           ELSE \E i \in Declaring(findCall) :
                    /\ \A j \in Declaring(findCall) : i <= j
                    /\ findCall.server = findCall.clients[i]

C14_Witness ==
    /\ findCall.done
    /\ findCall.toolName = <<"search">>
    /\ findCall.clients = <<"b", "a">>
    /\ Declaring(findCall) = {1, 2}
    /\ findCall.server = "b"

\* C15: a name qualified with the id of a connected server resolves to that
\* server without any tools/list request, whatever the other servers declare.
C15_QualifiedResolvesDirectly ==
    (/\ findCall.done
     /\ Len(findCall.toolName) > 1
     /\ \E i \in 1..Len(findCall.clients) : findCall.clients[i] = findCall.toolName[1])
        => /\ findCall.server = findCall.toolName[1]
           /\ findCall.sent = <<>>

C15_Witness ==
    /\ findCall.done
    /\ findCall.toolName = <<"a", "search">>
    /\ findCall.clients = <<"b", "a">>
    /\ findCall.answers["b"].tools = SdkTools
    /\ findCall.server = "a"
    /\ findCall.sent = <<>>

\* the server id in front of the "__" of a name of the form server__tool
UnderscoreServer(toolName) == IF toolName = <<"a__search">> THEN "a" ELSE ""

\* C35: a name of the form server__tool resolves to the server in front of
\* the "__" without any tools/list request whenever that server is connected,
\* as a name of the form server.tool does.
C35_UnderscoreResolvesDirectly ==
    (/\ findCall.done
     /\ UnderscoreServer(findCall.toolName) # ""
     /\ ClientsHas(findCall.clients, UnderscoreServer(findCall.toolName)))
        => /\ findCall.server = UnderscoreServer(findCall.toolName)
           /\ findCall.sent = <<>>

\* the owners of the tool of the last multiClient.callTool, in index order
Owners == getServerIdsForTool(toolServerMap, regOp.tool)

Called(serverId) == \E k \in 1..Len(regLog) : regLog[k] = Request(serverId, "tools/call")

\* C16: callTool never raises; when the only owner of the tool fails the
\* call with a transport error, callTool returns a result with isError true.
C16_TransportFailureIsAResult ==
    /\ ~regOut.raised
    /\ (regOp.op = "callTool" /\ Len(Owners) = 1 /\ regOp.calls[Owners[1]] = "throw")
           => regOut.result.isError
    /\ (regOp.op = "clientCallTool" /\ regOp.calls[regOp.server] = "throw")
           => regOut.result.isError

C16_Witness ==
    /\ regOp.op = "callTool"
    /\ Owners = <<"a">>
    /\ regOp.calls["a"] = "throw"
    /\ Called("a")
    /\ regOut.result.isError
    /\ regOut.result.from = "a"
    /\ ~regOut.raised

\* C17: when the first of two owners fails the call at transport level,
\* callTool goes on to the second owner and returns that owner's result; only
\* when the second fails as well is the result a failure.
C17_AdvancesOnTransportFailure ==
    (/\ regOp.op = "callTool"
     /\ Len(Owners) = 2
     /\ regOp.calls[Owners[1]] = "throw"
     /\ Called(Owners[1]))
        => IF regOp.calls[Owners[2]] = "throw" THEN regOut.result.isError
           ELSE /\ Called(Owners[2])
                /\ regOut.result.from = Owners[2]

\* C18: when an owner answers with an error of the tool (an error result or a
\* JSON-RPC error, not a transport failure), callTool returns that result
\* and sends the call to no later owner.
C18_LogicalErrorReturned ==
    (/\ regOp.op = "callTool"
     /\ Len(Owners) >= 1
     /\ regOp.calls[Owners[1]] \in {"toolerror", "rpcerror"}
     /\ Called(Owners[1]))
        => /\ regOut.result.isError
           /\ regOut.result.from = Owners[1]
           /\ \A k \in 2..Len(Owners) : ~Called(Owners[k])

C18_Witness ==
    /\ regOp.op = "callTool"
    /\ Owners = <<"a", "b">>
    /\ regOp.calls["a"] = "toolerror"
    /\ regOp.calls["b"] = "ok"
    /\ Called("a")
    /\ ~Called("b")
    /\ regOut.result = ServerResult("a", TRUE, "tool failed")

\* the tool cache of the MCPClient of a server
CacheOf(clients, serverId) == MapGet(clients, serverId).toolCache

\* C20: once an MCPClient has listed its tools successfully, each
\* listTools(true) returns the cached tools and sends no tools/list request,
\* and the cache changes only in a step in which a tools/list request was
\* sent and answered with tools.
C20_CachedListTools ==
    [][\A serverId \in RegServers :
           (MapHas(regClients, serverId) /\ CacheOf(regClients, serverId).set)
               => /\ (/\ regOp'.op = "listTools"
                      /\ regOp'.server = serverId
                      /\ regOp'.useCache)
                         => /\ regLog' = <<>>
                            /\ regOut'.tools = CacheOf(regClients, serverId).tools
                            /\ CacheOf(regClients', serverId) = CacheOf(regClients, serverId)
                  /\ CacheOf(regClients', serverId) # CacheOf(regClients, serverId)
                         => /\ \E k \in 1..Len(regLog') :
                                   regLog'[k] = Request(serverId, "tools/list")
                            /\ CacheOf(regClients', serverId).set]_vars

C20_Witness ==
    /\ regOp.op = "listTools"
    /\ regOp.server = "a"
    /\ regOp.useCache
    /\ regOp.answer.kind = "fail"
    /\ regLog = <<>>
    /\ regOut.tools = {<<"search">>}
    /\ CacheOf(regClients, "a") = [set |-> TRUE, tools |-> {<<"search">>}]

\* C21: listTools raises nothing; when its tools/list request fails it
\* returns no tools and leaves the cache as it was, and after a failed
\* request on a client without a cache the next listTools of that client
\* sends a request again.
C21_ListFailureNotCached ==
    [][/\ (/\ regOp'.op = "listTools"
           /\ regOp'.answer.kind = "fail"
           /\ regLog' # <<>>)
              => /\ ~regOut'.raised
                 /\ regOut'.tools = {}
                 /\ CacheOf(regClients', regOp'.server)
                        = CacheOf(regClients, regOp'.server)
       /\ (/\ regOp.op = "listTools"
           /\ regOp.answer.kind = "fail"
           /\ regLog # <<>>
           /\ ~CacheOf(regClients, regOp.server).set
           /\ regOp'.op = "listTools"
           /\ regOp'.server = regOp.server)
              => regLog' = <<Request(regOp.server, "tools/list")>>]_vars

C21_Witness ==
    /\ regOp.op = "listTools"
    /\ regOp.server = "a"
    /\ ~regOp.useCache
    /\ regOp.answer.kind = "fail"
    /\ regLog = <<Request("a", "tools/list")>>
    /\ regOut.tools = {}
    /\ CacheOf(regClients, "a") = [set |-> TRUE, tools |-> {<<"search">>}]

\* C22: MCPClient.callTool of a tool that the descriptor set it consulted
\* (the cache after the call, or nothing when listing failed) does not hold
\* returns an error result and sends no tools/call request.
C22_UnknownToolFailsLocally ==
    (/\ regOp.op = "clientCallTool"
     /\ \/ ~CacheOf(regClients, regOp.server).set
        \/ regOp.tool \notin CacheOf(regClients, regOp.server).tools)
        => /\ regOut.result.isError
           /\ \A k \in 1..Len(regLog) : regLog[k].method # "tools/call"

C22_Witness ==
    /\ regOp.op = "clientCallTool"
    /\ regOp.tool = <<"rm">>
    /\ regOp.calls[regOp.server] = "ok"
    /\ CacheOf(regClients, regOp.server) = [set |-> TRUE, tools |-> {<<"search">>}]
    /\ regOut.result.isError
    /\ regLog = <<>>

\* C23: MCPClient.callTool raises nothing; for a supported tool a JSON-RPC
\* error answer and a failed tools/call request each come back as an error
\* result that carries the message of that error.
C23_ClientCallToolNeverRaises ==
    regOp.op = "clientCallTool"
        => /\ ~regOut.raised
           /\ \A k \in 1..Len(regLog) :
                  regLog[k].method = "tools/call"
                      => /\ regOp.calls[regOp.server] = "rpcerror"
                            => /\ regOut.result.isError
                               /\ regOut.result.text = "rpc error"
                         /\ regOp.calls[regOp.server] = "throw"
                            => /\ regOut.result.isError
                               /\ regOut.result.text = "response error"

C23_Witness ==
    /\ regOp.op = "clientCallTool"
    /\ regOp.calls[regOp.server] = "rpcerror"
    /\ regLog = <<Request(regOp.server, "tools/call")>>
    /\ regOut.result.isError
    /\ regOut.result.text = "rpc error"
    /\ ~regOut.raised

----------------------------------------------------------------------------
(* Claims about the server configuration *)

HasKey(v, key) == v.t = "obj" /\ \E m \in v.o : m[1] = key

\* absent, unreadable, not JSON, or JSON with neither top-level key
Unusable(file) ==
    \/ ~file.exists
    \/ ~file.readable
    \/ ~JsonParse(file.text).ok
    \/ /\ ~HasKey(JsonParse(file.text).v, Key.mcpServers)
       /\ ~HasKey(JsonParse(file.text).v, Key.servers)

\* C19: loading the configuration raises nothing, and for a file that is
\* absent, unreadable, not valid JSON or without the mcpServers and servers
\* keys the server list is empty afterwards: the list kept by load, the
\* list returned by loadServerConfigs, whatever an earlier load had left.
C19_UnusableFileGivesNoServers ==
    /\ ~cfgCall.raised
    /\ (cfgCall.op = "load" /\ Unusable(cfgCall.file))
           => cfgServers = EmptyList
    /\ (cfgCall.op = "loadServerConfigs" /\ Unusable(cfgCall.file))
           => cfgCall.returned = EmptyList

C19_Witness ==
    /\ cfgCall.op = "load"
    /\ cfgCall.before # EmptyList
    /\ cfgCall.file.exists
    /\ cfgCall.file.readable
    /\ ~JsonParse(cfgCall.file.text).ok
    /\ cfgServers = EmptyList

\* the value of mcpServers in a file that is in mapping form: readable JSON
\* whose mcpServers is an object with at least one key, every key given an
\* object
MappingOf(file) ==
    IF file.exists /\ file.readable /\ JsonParse(file.text).ok
    THEN GetProp(JsonParse(file.text).v, Key.mcpServers)
    ELSE JUndef

InMappingForm(mapping) ==
    /\ mapping.t = "obj"
    /\ mapping.o # {}
    /\ \A m \in mapping.o : m[2].t = "obj"

\* the record the claim has load make of one key and its value
Normalised(id, config) ==
    JObj({<<Key.id, JStr(id)>>,
          <<Key.name, IF HasKey(config, Key.name) THEN GetProp(config, Key.name)
                      ELSE JStr(id)>>,
          <<Key.command, GetProp(config, Key.command)>>,
          <<Key.args, IF HasKey(config, Key.args) THEN GetProp(config, Key.args)
                      ELSE JArr({})>>,
          <<Key.env, IF HasKey(config, Key.env) THEN GetProp(config, Key.env)
                     ELSE JObj({})>>,
          <<Key.cwd, IF HasKey(config, Key.cwd) THEN GetProp(config, Key.cwd)
                     ELSE ProcessCwd>>,
          <<Key.capabilities, IF HasKey(config, Key.capabilities)
                              THEN GetProp(config, Key.capabilities)
                              ELSE JArr({})>>})

NormalisedAll(entries) ==
    JArr({<<DecimalText(i - 1), Normalised(entries[i][1], entries[i][2])>> :
          i \in 1..Len(entries)})

\* C36: for a file in mapping form load leaves one record per key, in the
\* order of the keys, with id the key, name the id when the value has no
\* name, args the empty list when it has none, env and capabilities empty
\* when it has none.
C36_MappingFormNormalised ==
    (cfgCall.op = "load" /\ InMappingForm(MappingOf(cfgCall.file)))
        => cfgServers = NormalisedAll(ObjectEntries(MappingOf(cfgCall.file)))

----------------------------------------------------------------------------
(* Claims about the bootstrap and the commands *)

\* the ids of the configurations of the last initializeMcpServers call
Configured == {boot.configs[i] : i \in 1..Len(boot.configs)}

\* the ids whose startServer call succeeded or that were running already
Started == {boot.configs[i] : i \in {j \in 1..Len(boot.configs) : boot.results[j] = "ok"}}

\* C29: initializeMcpServers raises nothing; each configured server that
\* was not running got one startServer call and each running one none,
\* whatever became of the other starts; the ids it returns are ids whose
\* start succeeded, for index.ts ids that were connected as well.
C29_StartFailureIsNotFatal ==
    /\ ~boot.raised
    /\ \A id \in Configured :
           boot.attempts[id] = IF id \in boot.before THEN 0 ELSE 1
    /\ boot.pc = "done"
           => /\ \A k \in 1..Len(boot.returned) : boot.returned[k] \in Started
              /\ bootImpl = "executor"
                     => \A id \in Started :
                            \E k \in 1..Len(boot.returned) : boot.returned[k] = id
              /\ bootImpl = "index"
                     => \A k \in 1..Len(boot.returned) :
                            \E j \in 1..Len(sdkMcpClients) :
                                sdkMcpClients[j] = boot.returned[k]

C29_Witness ==
    /\ boot.pc = "done"
    /\ boot.configs = <<"s1", "s2">>
    /\ boot.before = {}
    /\ boot.results = <<"fail", "ok">>
    /\ boot.attempts = [id \in ServerIds |-> 1]
    /\ boot.returned = <<"s2">>

----------------------------------------------------------------------------
(* Claims about the messages of the follow-up model call *)

\* C32: the follow-up model call is given the caller's messages, unchanged
\* and in order, then the assistant's message with the tool calls, then one
\* message of role user that holds the outcome of every tool call in call
\* order.
C32_FollowUpIsOneUserMessage ==
    rtPc = "second"
        => /\ Len(rtNewMessages) = Len(rtMessages) + 2
           /\ SubSeq(rtNewMessages, 1, Len(rtMessages)) = rtMessages
           /\ rtNewMessages[Len(rtMessages) + 1] = AssistantMessage(rtCompletion)
           /\ rtNewMessages[Len(rtMessages) + 2].role = "user"

----------------------------------------------------------------------------
(* Claims about a turn of startChat *)

\* the names in the structured tool_calls list of the response
StructuredNames ==
    {chat.responseTool_calls[j].function.name : j \in 1..Len(chat.responseTool_calls)}

\* the tools of the calls the turn handed to callTool
HandedTools ==
    {chatSent[k].tool : k \in {n \in 1..Len(chatSent) : chatSent[n].method = "tools/call"}}

\* C33: extractToolCalls runs on the text exactly when the structured
\* tool_calls list of the response is empty; when the list is not empty the
\* calls to execute, and the calls executed, come from that list alone.
C33_StructuredCallsPreferred ==
    chat.pc # "idle"
        => /\ chat.extracted <=> Len(chat.responseTool_calls) = 0
           /\ Len(chat.responseTool_calls) > 0
                  => /\ \A i \in 1..Len(chat.toolCalls) :
                            chat.toolCalls[i].tool \in StructuredNames
                     /\ HandedTools \subseteq StructuredNames

C33_Witness ==
    /\ chat.pc = "done"
    /\ Len(chat.responseTool_calls) = 2
    /\ extractToolCalls(chat.responseContent) # <<>>
    /\ ~chat.extracted
    /\ HandedTools = {<<"l", "s">>, <<"b", ".", "l", "s">>}

----------------------------------------------------------------------------
(* Claims about MCPMultiClient when calls overlap *)

\* the initialize of call t returns in this step
InitializeReturns(t) ==
    mcTasks[t].pc \in {"idle", "init"} /\ mcTasks'[t].pc \in {"done", "inited"}

IndexedUnder(map, tool, serverId) ==
    \E i \in 1..Len(map[tool]) : map[tool][i] = serverId

\* C31: when initialize returns, every client of the registry has been asked
\* for its tools once, and a tool is indexed under a server id exactly when
\* that client's listTools returned it; a client whose listTools failed has
\* no entry and the others have theirs.
C31_InitializeIndexesEveryClient ==
    [][\A t \in 1..MaxTasks :
           InitializeReturns(t)
               => \A i \in 1..Len(mcClients') :
                      /\ mcAsked'[mcClients'[i][1]].n = 1
                      /\ \A tool \in RegTools :
                             tool \in mcAsked'[mcClients'[i][1]].tools
                                 <=> IndexedUnder(mcToolServerMap', tool,
                                                  mcClients'[i][1])]_vars

\* C39: in toolServerMap a server id appears at most once under a tool name,
\* whatever calls of initialize, callTool and getAllTools were made, also
\* when they overlap.
C39_OneEntryPerServer ==
    \A tool \in RegTools :
        \A i, j \in 1..Len(mcToolServerMap[tool]) :
            mcToolServerMap[tool][i] = mcToolServerMap[tool][j] => i = j

----------------------------------------------------------------------------
(* Claims about teardown *)

\* the ids the shutdown requests of the log went to, in order
AskedToShutDown ==
    [k \in 1..Len(SelectSeq(tdLog, LAMBDA ev : ev.e = "shutdown")) |->
        SelectSeq(tdLog, LAMBDA ev : ev.e = "shutdown")[k].id]

\* C34: teardown sends a shutdown request to every connected client before
\* it stops any server process; whatever the requests come to, every client
\* is asked and stopAllServers is called afterwards, which stops every
\* tracked server unless it fails itself; teardown never raises.
C34_TeardownAsksThenStops ==
    /\ ~teardown.raised
    /\ \A i, j \in 1..Len(tdLog) :
           (tdLog[i].e = "stop" /\ tdLog[j].e = "shutdown") => j < i
    /\ (tdManager /\ teardown.pc \in {"stop", "done"})
           => /\ AskedToShutDown = tdClients
              /\ Len(teardown.outcomes) = Len(tdClients)
    /\ (tdManager /\ teardown.pc = "done" /\ ~teardown.stopFailed) => tdLive = {}

C34_Witness ==
    /\ teardown.pc = "done"
    /\ tdClients = <<"b", "a">>
    /\ teardown.outcomes = <<"rejected", "failed">>
    /\ tdLog = <<ShutdownEvent("b"), ShutdownEvent("a"), StopEvent("a"), StopEvent("b")>>
    /\ tdLive = {}

============================================================================
